---- MODULE Spec2Model ----
(***************************************************************************)
(* Verification model of automation_reports: the bitmask codec of          *)
(* src/utils.py, the record merger and the log extractor of                *)
(* src/data_processor.py and the trigger parser / validator of             *)
(* src/scheduler_handler.py.                                               *)
(*                                                                         *)
(* The module holds several specifications over one set of variables; a    *)
(* specification leaves the variables of the other components at their     *)
(* idle values.                                                            *)
(***************************************************************************)
EXTENDS Integers, Sequences, FiniteSets, TLC

VARIABLES
    \* ---- bitmask codec (src/utils.py, BitmaskConverter) ----
    cpc,        \* "idle" | "start" | "encoded" | "loaded" | "decoded"
    cSource,    \* "declared": a list to encode; "readback": a bitmask to decode
    cMapping,   \* "week" | "monthday" | "month"
    cDays,      \* the list handed to the encoder
    cBitmask,   \* the bitmask (a Python value)
    cDecoded,   \* the list returned by the decoder
    \* ---- record merger (src/data_processor.py, merge_with_existing_data) ----
    mpc,        \* "idle" | "start" | "merged" | "remerged"
    original,   \* the first list of the chain (L1), as it was before any merge
    existing,   \* existing_data: the list every merge patches in place
    incoming,   \* new_data of the latest merge
    prev,       \* existing_data as it was before the latest merge
    mcount,     \* number of sources merged into existing so far
    \* ---- log extractor (src/data_processor.py, process_log_files) ----
    lpc,        \* "idle" | "start" | "processed" | "merged"
    today,      \* datetime.now().date(), as a day number
    logLocation,\* where the log file is: "root" | "subdir" | "missing"
    last_lines, \* the lines read_last_n_lines returned, oldest first
    last_match, \* position in last_lines of the line selected; 0 is None
    log_info,   \* the dict process_log_files returned
    all_data,   \* the list the log data is merged into
    \* ---- error handler (src/error_handler.py) ----
    reported,   \* severities passed to handle_error, in order
    ERROR_TYPES,\* error_handler.ERROR_TYPES
    \* ---- trigger parser and validator (src/scheduler_handler.py) ----
    tpc,        \* "idle" | "start" | "parsed" | "checked" | "created"
    content,    \* the schedule file: [format, triggers]
    params,     \* params['triggers'] as parse_schedule_params built it
    errors,     \* the errors check_required_params collected
    accepted,   \* what check_required_params returned
    Triggers,   \* task_definition.Triggers: the native triggers created so far
    created,    \* create_or_update_task: "none" | "True" | "False" | the exception raised
    registered, \* folder.RegisterTaskDefinition was called with Triggers
    \* ---- archive mover (src/utils.py, move_folder_to_archive) ----
    apc,        \* "idle" | "start" | "moved"
    source,     \* the job folder: <<>> when there is none, else <<folder>>
    destination,\* Archive/<name>: <<>> when there is none, else <<folder>>
    sourceAfter,      \* the job folder after the move
    destinationAfter, \* Archive/<name> after the move
    returned,   \* what move_folder_to_archive returned
    \* ---- one run of main (src/main.py, src/data_handler.py) ----
    rpc,        \* "idle" | "start" | "worked" | "closed" | "returned"
    tasks,      \* parse_arguments(): the set of task names
    disk,       \* identifier -> "none" | "old" | "today": its folder under the roots
    store,      \* the identifiers that have a row in dbo.autoreports
    primary,    \* identifier -> "none" | "postgre" | "both": where its main data is
    schedules,  \* identifier -> the kind of its schedule file
    mailer,     \* the Mailer settings hold smtp_server and sender
    connections,\* the connections that are open: <<connector, database>>
    opened,     \* every connection that was opened during the run
    collected,  \* the identifiers collect_primary_data went through, in order
    writes,     \* the batches handed to the store: [op, records]
    sends,      \* the calls of send_error_report: [after, outcome]
    qpc,        \* "idle" | "called" | "returned": execute_mssql_query
    query,      \* "insert" | "update": the statement of the batch
    params_list,\* the batch: the identifier of each parameter tuple, in order
    failing,    \* the positions whose statement the store rejects
    table,      \* the positions of the batch whose rows are committed
    row_before, \* the stored row of the first identifier of the batch
    update_fields, \* the merged record of that identifier: field -> value
    row_after,  \* that row after the call
    npc,        \* "idle" | "read" | "processed": process_trigger_info
    schedule_info,  \* task['Schedule Info']: the triggers read back, in order
    schedule_result, \* the record process_trigger_info returned
    kpc,        \* "idle" | "found" | "processed": process_cmd_files
    cmd_file,   \* "none" | "unreadable" | "read": the command file of the folder
    cmd_content,\* the lines of the command file, each the directives it holds
    task_info,  \* the record process_cmd_files returned
    fpc,        \* "idle" | "opened" | "read": read_last_n_lines
    file_bytes, \* the content of the log file, one character per byte
    wanted,     \* n, the number of lines asked for
    tail_lines, \* the list read_last_n_lines returned
    tail_reads, \* the positions the blocks were read at, in reading order
    ypc,        \* "idle" | "start" | "done": an update cycle over the job folders
    task_states,\* identifier -> "disabled" | "enabled" | "unread": the task read back
    task_parents,\* identifier -> the directory holding the folder of the task's
                \* action, "none" when the task has no action
    move_fails, \* identifier -> the move of its folder raises OSError
    located,    \* identifier -> "source" | "archive": where its folder is
    events,     \* what the cycle did, in order: [e, id, what]
    commits,    \* the commits made, in order: [parent, folders]
    cycle_records \* the records handed to update_tasks_in_db

codecVars == <<cpc, cSource, cMapping, cDays, cBitmask, cDecoded>>
mergeVars == <<mpc, original, existing, incoming, prev, mcount>>
logVars == <<lpc, today, logLocation, last_lines, last_match, log_info, all_data>>
errVars == <<reported, ERROR_TYPES>>
trigVars == <<tpc, content, params, errors, accepted, Triggers, created, registered>>
archVars == <<apc, source, destination, sourceAfter, destinationAfter, returned>>
runVars == <<rpc, tasks, disk, store, primary, schedules, mailer, connections, opened,
             collected, writes, sends>>
storeVars == <<qpc, query, params_list, failing, table, row_before, update_fields,
               row_after>>
normVars == <<npc, schedule_info, schedule_result>>
cmdVars == <<kpc, cmd_file, cmd_content, task_info>>
tailVars == <<fpc, file_bytes, wanted, tail_lines, tail_reads>>
cycleVars == <<ypc, task_states, task_parents, move_fails, located, events, commits,
               cycle_records>>
vars == <<codecVars, mergeVars, logVars, errVars, trigVars, archVars, runVars, storeVars, normVars, cmdVars, tailVars, cycleVars>>

(***************************************************************************)
(* Python values.  bool is a subclass of int: False == 0 is true, yet      *)
(* False and 0 are values of different kinds.                              *)
(***************************************************************************)
PyInt(n) == [kind |-> "int", val |-> n]
PyFalse == [kind |-> "bool", val |-> 0]
PyNone == [kind |-> "NoneType", val |-> 0]
\* Python's truth value of an int, bool or None
Truthy(v) == v.kind # "NoneType" /\ v.val # 0
\* Python's == between an int, bool or None and the literal 0
EqualsZero(v) == v.kind # "NoneType" /\ v.val = 0

\* ---- bounds ----
MaxDays == 3
MaxRawBitmask == 8

RECURSIVE SubsetsUpTo(_, _)
SubsetsUpTo(D, k) ==
    IF k = 0 THEN {{}}
    ELSE LET smaller == SubsetsUpTo(D, k - 1)
         IN  smaller \cup {s \cup {d} : s \in smaller, d \in D}

Min(S) == CHOOSE x \in S : \A y \in S : x <= y

RECURSIVE SortedSeq(_)
SortedSeq(S) ==
    IF S = {} THEN <<>> ELSE <<Min(S)>> \o SortedSeq(S \ {Min(S)})

RECURSIVE SumSeq(_)
SumSeq(s) == IF s = <<>> THEN 0 ELSE Head(s) + SumSeq(Tail(s))

\* bitmask & (1 << k) is non-zero
BitSet(n, k) == (n \div (2 ^ k)) % 2 = 1

Range(s) == {s[i] : i \in DOMAIN s}

RECURSIVE SelectInts(_, _)
\* [PyInt(d) for d in order if keep(d)], order a sequence of integers
SelectInts(order, keep) ==
    IF order = <<>> THEN <<>>
    ELSE (IF Head(order) \in keep THEN <<PyInt(Head(order))>> ELSE <<>>)
         \o SelectInts(Tail(order), keep)

RECURSIVE UpTo(_, _)
UpTo(a, b) == IF a > b THEN <<>> ELSE <<a>> \o UpTo(a + 1, b)

\* the weekday table: Sunday = 1 -> 0x01 ... Saturday = 7 -> 0x40
bitmask_map == <<1, 2, 4, 8, 16, 32, 64>>

days_of_week_to_bitmask(days_of_week) ==
    PyInt(SumSeq([i \in DOMAIN days_of_week |->
                    IF days_of_week[i] \in DOMAIN bitmask_map
                    THEN bitmask_map[days_of_week[i]] ELSE 0]))

bitmask_to_days_of_week(bitmask) ==
    IF bitmask = PyNone THEN <<>>
    ELSE SelectInts(UpTo(1, 7),
                    {day \in 1..7 : (bitmask.val \div bitmask_map[day]) % 2 = 1})

days_of_month_to_bitmask(days_of_month) ==
    IF days_of_month # <<>>
    THEN PyInt(SumSeq([i \in DOMAIN days_of_month |-> 2 ^ (days_of_month[i] - 1)]))
    ELSE PyFalse

\* variant: the scan starts at day 2
M_bitmask_to_days_of_month_from2(bitmask) ==
    IF EqualsZero(bitmask) THEN <<bitmask>>
    ELSE SelectInts(UpTo(1, 31),
                    {day \in 2..31 : Truthy(bitmask) /\ BitSet(bitmask.val, day - 1)})

\* variant: no special case for a zero bitmask
M_bitmask_to_days_of_month_nozero(bitmask) ==
    SelectInts(UpTo(1, 31),
               {day \in 1..31 : Truthy(bitmask) /\ BitSet(bitmask.val, day - 1)})

bitmask_to_days_of_month(bitmask) ==
    IF EqualsZero(bitmask) THEN <<bitmask>>
    ELSE SelectInts(UpTo(1, 31),
                    {day \in 1..31 : Truthy(bitmask) /\ BitSet(bitmask.val, day - 1)})

months_of_year_to_bitmask(months_of_year) ==
    IF months_of_year # <<>>
    THEN PyInt(SumSeq([i \in DOMAIN months_of_year |-> 2 ^ (months_of_year[i] - 1)]))
    ELSE PyFalse

bitmask_to_months_of_year(bitmask) ==
    SelectInts(UpTo(1, 12),
               {month \in 1..12 : Truthy(bitmask) /\ BitSet(bitmask.val, month - 1)})

Mappings == {"week", "monthday", "month"}
Ordinals(m) == IF m = "week" THEN 1..7 ELSE IF m = "monthday" THEN 1..31 ELSE 1..12

Encode(m, days) ==
    IF m = "week" THEN days_of_week_to_bitmask(days)
    ELSE IF m = "monthday" THEN days_of_month_to_bitmask(days)
    ELSE months_of_year_to_bitmask(days)

Decode(m, bitmask) ==
    IF m = "week" THEN bitmask_to_days_of_week(bitmask)
    ELSE IF m = "monthday" THEN bitmask_to_days_of_month(bitmask)
    ELSE bitmask_to_months_of_year(bitmask)

RawBitmasks == {PyInt(n) : n \in 0..MaxRawBitmask} \cup {PyFalse, PyNone}

CodecIdle ==
    /\ cpc = "idle" /\ cSource = "declared" /\ cMapping = "week"
    /\ cDays = <<>> /\ cBitmask = PyNone /\ cDecoded = <<>>

CodecInit ==
    /\ cpc = "start"
    /\ cMapping \in Mappings
    /\ \/ /\ cSource = "declared"
          /\ cDays \in {SortedSeq(S) : S \in SubsetsUpTo(Ordinals(cMapping), MaxDays)}
       \/ /\ cSource = "readback"
          /\ cDays = <<>>
    /\ cBitmask = PyNone
    /\ cDecoded = <<>>

\* TriggerConfig._configure_weekly / _configure_monthly: encode the declared list
EncodeDays ==
    /\ cpc = "start" /\ cSource = "declared"
    /\ cBitmask' = Encode(cMapping, cDays)
    /\ cpc' = "encoded"
    /\ UNCHANGED <<cSource, cMapping, cDays, cDecoded>>
    /\ UNCHANGED <<mergeVars, logVars, errVars, trigVars, archVars, runVars, storeVars, normVars, cmdVars, tailVars, cycleVars>>

\* a bitmask handed to a decoder directly
LoadBitmask ==
    /\ cpc = "start" /\ cSource = "readback"
    /\ \E b \in RawBitmasks : cBitmask' = b
    /\ cpc' = "loaded"
    /\ UNCHANGED <<cSource, cMapping, cDays, cDecoded>>
    /\ UNCHANGED <<mergeVars, logVars, errVars, trigVars, archVars, runVars, storeVars, normVars, cmdVars, tailVars, cycleVars>>

DecodeBitmask ==
    /\ cpc \in {"encoded", "loaded"}
    /\ cDecoded' = Decode(cMapping, cBitmask)
    /\ cpc' = "decoded"
    /\ UNCHANGED <<cSource, cMapping, cDays, cBitmask>>
    /\ UNCHANGED <<mergeVars, logVars, errVars, trigVars, archVars, runVars, storeVars, normVars, cmdVars, tailVars, cycleVars>>

CodecNext == EncodeDays \/ LoadBitmask \/ DecodeBitmask

(***************************************************************************)
(* Record merger.  A record is a Python dict: a function from the field    *)
(* names it holds to their values.                                         *)
(***************************************************************************)
\* ---- bounds ----
MaxExisting == 2
MaxIncoming == 2
MaxChain == 2

Names == {"REQ1", "REQ2"}
Values == {"a", "b"}
NonKeyFields == {"theme"}
NoName == "None"

EmptyRecord == [k \in {} |-> "a"]

\* every dict over task_name and the non-key fields; the empty dict included
Records ==
    {EmptyRecord}
    \cup UNION {[{"task_name"} \cup D -> Names \cup Values] : D \in SUBSET NonKeyFields}

WellTyped(r) ==
    \A k \in DOMAIN r : IF k = "task_name" THEN r[k] \in Names ELSE r[k] \in Values

RecordUniverse == {r \in Records : WellTyped(r)}

RECURSIVE ListsUpTo(_, _)
ListsUpTo(U, n) ==
    IF n = 0 THEN {<<>>}
    ELSE LET shorter == ListsUpTo(U, n - 1)
         IN  shorter \cup {Append(l, r) : l \in shorter, r \in U}

ExistingLists == ListsUpTo(RecordUniverse, MaxExisting)
IncomingLists == ListsUpTo(RecordUniverse, MaxIncoming)

\* task.get('task_name')
GetName(task) == IF "task_name" \in DOMAIN task THEN task["task_name"] ELSE NoName

\* next((task for task in new_data if task.get('task_name') == name), None)
Matching(new_data, name) ==
    LET J == {j \in DOMAIN new_data : GetName(new_data[j]) = name}
    IN  IF J = {} THEN [found |-> FALSE, task |-> EmptyRecord]
        ELSE [found |-> TRUE, task |-> new_data[Min(J)]]

\* `if matching_task:` : neither None nor an empty dict
MatchTruthy(m) == m.found /\ DOMAIN m.task # {}

\* variant: fields the existing record already holds are kept (setdefault)
M_UpdateTask_keep(existing_task, matching_task) ==
    LET patch == DOMAIN matching_task \ ({"task_name"} \cup DOMAIN existing_task)
    IN  [k \in DOMAIN existing_task \cup patch |->
            IF k \in patch THEN matching_task[k] ELSE existing_task[k]]

\* variant: the existing record is replaced by the incoming one, not patched
M_UpdateTask_replace(existing_task, matching_task) ==
    LET patch == DOMAIN matching_task \ {"task_name"}
    IN  [k \in (DOMAIN existing_task \cap {"task_name"}) \cup patch |->
            IF k \in patch THEN matching_task[k] ELSE existing_task[k]]

\* existing_task.update({k: v for k, v in matching_task.items() if k != 'task_name'})
UpdateTask(existing_task, matching_task) ==
    LET patch == DOMAIN matching_task \ {"task_name"}
    IN  [k \in DOMAIN existing_task \cup patch |->
            IF k \in patch THEN matching_task[k] ELSE existing_task[k]]

\* variant: the patched records are returned in reverse order
M_merge_reversed(existing_data, new_data) ==
    [i \in DOMAIN existing_data |->
        LET e == existing_data[Len(existing_data) + 1 - i]
            m == Matching(new_data, GetName(e))
        IN  IF MatchTruthy(m) THEN UpdateTask(e, m.task) ELSE e]

merge_with_existing_data(existing_data, new_data) ==
    [i \in DOMAIN existing_data |->
        LET m == Matching(new_data, GetName(existing_data[i]))
        IN  IF MatchTruthy(m) THEN UpdateTask(existing_data[i], m.task)
            ELSE existing_data[i]]

MergeIdle ==
    /\ mpc = "idle" /\ original = <<>> /\ existing = <<>>
    /\ incoming = <<>> /\ prev = <<>> /\ mcount = 0

MergeInit ==
    /\ mpc = "start"
    /\ original \in ExistingLists
    /\ existing = original
    /\ incoming = <<>>
    /\ prev = original
    /\ mcount = 0

\* all_data = merge_with_existing_data(all_data, <next source>)
MergeSource ==
    /\ mpc = "start"
    /\ mcount < MaxChain
    /\ \E new_data \in IncomingLists :
          /\ incoming' = new_data
          /\ existing' = merge_with_existing_data(existing, new_data)
    /\ prev' = existing
    /\ mcount' = mcount + 1
    /\ mpc' = "merged"
    /\ UNCHANGED original
    /\ UNCHANGED <<codecVars, logVars, errVars, trigVars, archVars, runVars, storeVars, normVars, cmdVars, tailVars, cycleVars>>

\* the same patch applied a second time
MergeAgain ==
    /\ mpc = "merged"
    /\ existing' = merge_with_existing_data(existing, incoming)
    /\ prev' = existing
    /\ mpc' = "remerged"
    /\ UNCHANGED <<original, incoming, mcount>>
    /\ UNCHANGED <<codecVars, logVars, errVars, trigVars, archVars, runVars, storeVars, normVars, cmdVars, tailVars, cycleVars>>

\* the caller hands the merged list on as existing_data of the next merge
ChainOn ==
    /\ mpc = "merged"
    /\ mcount < MaxChain
    /\ mpc' = "start"
    /\ incoming' = <<>>
    /\ prev' = existing
    /\ UNCHANGED <<original, existing, mcount>>
    /\ UNCHANGED <<codecVars, logVars, errVars, trigVars, archVars, runVars, storeVars, normVars, cmdVars, tailVars, cycleVars>>

MergeNext == MergeSource \/ ChainOn \/ MergeAgain

(***************************************************************************)
(* Log extractor.  A string is a sequence of text pieces (a piece is one    *)
(* or more characters), so that splitting, stripping, joining and the      *)
(* substring test `in` act on it as they act on the characters.            *)
(***************************************************************************)
\* ---- bounds ----
MaxWindow == 3
LastDay == 2

RECURSIVE Join(_, _)
\* sep.join(items)
Join(items, sep) ==
    IF items = <<>> THEN <<>>
    ELSE IF Len(items) = 1 THEN items[1]
    ELSE items[1] \o sep \o Join(Tail(items), sep)

\* text[i .. i + Len(sub) - 1] = sub
OccursAt(text, sub, i) ==
    /\ i + Len(sub) - 1 <= Len(text)
    /\ \A j \in 1..Len(sub) : text[i + j - 1] = sub[j]

\* `sub in text` for two strings
Contains(text, sub) == \E i \in 1..(Len(text) + 1) : OccursAt(text, sub, i)

RECURSIVE Split(_, _)
\* text.split(sep), sep not empty
Split(text, sep) ==
    LET at == {i \in 1..Len(text) : OccursAt(text, sep, i)}
    IN  IF at = {} THEN <<text>>
        ELSE <<SubSeq(text, 1, Min(at) - 1)>>
             \o Split(SubSeq(text, Min(at) + Len(sep), Len(text)), sep)

RECURSIVE LStrip(_, _)
LStrip(text, chars) ==
    IF text # <<>> /\ Head(text) \in chars THEN LStrip(Tail(text), chars) ELSE text

RECURSIVE RStrip(_, _)
RStrip(text, chars) ==
    IF text # <<>> /\ text[Len(text)] \in chars
    THEN RStrip(SubSeq(text, 1, Len(text) - 1), chars) ELSE text

\* text.strip(chars)
Strip(text, chars) == RStrip(LStrip(text, chars), chars)

RECURSIVE StripNonEmpty(_)
\* [item.strip('[]') for item in items if item]
StripNonEmpty(items) ==
    IF items = <<>> THEN <<>>
    ELSE (IF Head(items) # <<>> THEN <<Strip(Head(items), {"[", "]"})>> ELSE <<>>)
         \o StripNonEmpty(Tail(items))

parse_log_list_field(raw_value) ==
    IF raw_value = <<>> THEN <<>>
    ELSE Join(StripNonEmpty(Split(raw_value, <<"]", ",", "[">>)), <<",">>)

\* the address the mailer substitutes when a report has no real recipient
Sentinel == <<"fake@fake.ru">>
Addresses == {<<"a@x.com">>, Sentinel, <<"not", "fake@fake.ru">>}

RECURSIVE Bracketed(_)
\* the bracketed-list form of the log: "[a],[b]"
Bracketed(items) ==
    IF items = <<>> THEN <<>>
    ELSE <<"[">> \o Head(items) \o <<"]">>
         \o (IF Len(items) > 1 THEN <<",">> \o Bracketed(Tail(items)) ELSE <<>>)

RecipientLists ==
    {<<a>> : a \in Addresses} \cup {<<(<<"a@x.com">>), Sentinel>>}

\* A log line: event says whether the line pattern matches it; the other fields
\* are the named groups of the match (recipients: the raw bracketed list, the
\* empty string when the group did not take part).
Junk == [event |-> FALSE, date |-> 0, status |-> "", to |-> <<>>,
         recipients |-> <<>>, error_message |-> ""]

EventLine(d, st, to, err) ==
    [event |-> TRUE, date |-> d, status |-> st, to |-> to,
     recipients |-> Bracketed(to), error_message |-> err]

LineUniverse ==
    {Junk}
    \cup {EventLine(d, "Success", to, "") : d \in 1..LastDay, to \in RecipientLists}
    \cup {EventLine(d, "Issue", <<(<<"a@x.com">>)>>, "") : d \in 1..LastDay}
    \cup {EventLine(d, "SendError", <<>>, "smtp") : d \in 1..LastDay}

Windows == ListsUpTo(LineUniverse, MaxWindow)

\* variant: the first line that matches is taken, whatever its date
M_ScanLines_first(lines, current_date, i, found) ==
    IF {j \in 1..i : lines[j].event} = {} THEN found
    ELSE CHOOSE j \in 1..i : lines[j].event /\ \A k \in (j + 1)..i : ~lines[k].event

RECURSIVE ScanLines(_, _, _, _)
\* for line in reversed(last_lines): ... ; i is the line looked at, found the
\* value of last_match so far (0: None)
ScanLines(lines, current_date, i, found) ==
    IF i = 0 THEN found
    ELSE IF lines[i].event
         THEN IF lines[i].date = current_date THEN i
              ELSE IF found = 0 THEN ScanLines(lines, current_date, i - 1, i)
              ELSE ScanLines(lines, current_date, i - 1, found)
         ELSE ScanLines(lines, current_date, i - 1, found)

\* the fields set from last_match (lines 401-428)
MatchInfo(name, line) ==
    LET recipients == parse_log_list_field(line.recipients)
        base == [task_name |-> name,
                 last_send_date |-> line.date,
                 last_send_status |->
                     IF ~Contains(recipients, Sentinel) THEN line.status
                     ELSE "SendError",
                 last_send_recipients |-> recipients,
                 last_send_attachments |-> <<>>]
    IN  IF line.error_message # ""
        THEN [k \in DOMAIN base \cup {"last_send_error"} |->
                 IF k = "last_send_error" THEN line.error_message ELSE base[k]]
        ELSE base

\* variant: a missing log file gives a record that blanks the delivery status
M_MissingLog_blank(name) ==
    [log_info |-> [task_name |-> name, last_send_status |-> ""],
     last_match |-> 0, reports |-> <<"warning">>]

\* the log file is at neither place (lines 368-370)
MissingLog(name) ==
    [log_info |-> EmptyRecord, last_match |-> 0, reports |-> <<"warning">>]

process_log_files(name, location, lines, current_date) ==
    IF location = "missing" THEN MissingLog(name)
    ELSE LET m == ScanLines(lines, current_date, Len(lines), 0)
         IN  [log_info |-> IF m # 0 THEN MatchInfo(name, lines[m])
                           ELSE [task_name |-> name],
              last_match |-> m,
              reports |-> <<>>]

\* handle_error: ERROR_TYPES after the severities of reports were handled
handle_error(error_types, reports) ==
    error_types \cup {reports[i] : i \in {j \in DOMAIN reports :
                                            reports[j] \in {"error", "critical"}}}

\* the records of the update cycle before the log data is merged in: the job of
\* the log (REQ1) and another job (REQ2)
StoredStatus == {"Success", "SendError"}

AllDataBeforeLog ==
    {<<r1, [task_name |-> "REQ2"]>> :
        r1 \in {[task_name |-> "REQ1"]}
               \cup {[task_name |-> "REQ1", last_send_status |-> st] : st \in StoredStatus}}

\* log_data_list entry of the other job
OtherLogInfo ==
    [task_name |-> "REQ2", last_send_date |-> LastDay, last_send_status |-> "Success",
     last_send_recipients |-> <<"a@x.com">>, last_send_attachments |-> <<>>]

LogIdle ==
    /\ lpc = "idle" /\ today = 0 /\ logLocation = "missing" /\ last_lines = <<>>
    /\ last_match = 0 /\ log_info = EmptyRecord /\ all_data = <<>>

\* no error was handled yet
ErrInit == reported = <<>> /\ ERROR_TYPES = {}

LogInit ==
    /\ lpc = "start"
    /\ today = LastDay
    /\ logLocation \in {"root", "subdir", "missing"}
    /\ last_lines \in (IF logLocation = "missing" THEN {<<>>} ELSE Windows)
    /\ last_match = 0
    /\ log_info = EmptyRecord
    /\ all_data \in AllDataBeforeLog

\* collect_primary_data: log_data_list.append(process_log_files(str(path)))
ProcessLog ==
    /\ lpc = "start"
    /\ LET r == process_log_files("REQ1", logLocation, last_lines, today)
       IN  /\ log_info' = r.log_info
           /\ last_match' = r.last_match
           /\ reported' = reported \o r.reports
           /\ ERROR_TYPES' = handle_error(ERROR_TYPES, r.reports)
    /\ lpc' = "processed"
    /\ UNCHANGED <<today, logLocation, last_lines, all_data>>
    /\ UNCHANGED <<codecVars, mergeVars, trigVars, archVars, runVars, storeVars, normVars, cmdVars, tailVars, cycleVars>>

\* update_data: all_data = merge_with_existing_data(all_data, log_data_list)
MergeLog ==
    /\ lpc = "processed"
    /\ all_data' = merge_with_existing_data(all_data, <<log_info, OtherLogInfo>>)
    /\ lpc' = "merged"
    /\ UNCHANGED <<today, logLocation, last_lines, last_match, log_info>>
    /\ UNCHANGED <<codecVars, mergeVars, errVars, trigVars, archVars, runVars, storeVars, normVars, cmdVars, tailVars, cycleVars>>

LogNext == ProcessLog \/ MergeLog

(***************************************************************************)
(* Trigger parser and validator.  A field of the schedule file is <<>> when *)
(* the key is missing or null (content.get returns None) and <<v>> when it  *)
(* holds v.  Weekday and month names stand for the Russian names of the     *)
(* file ("AllMonths" for the every-month literal); a month-day is written   *)
(* as str(day) gives it.                                                    *)
(***************************************************************************)
\* ---- bounds ----
MaxTriggers == 2

\* Python None as the value of a string field
NoValue == "None"

RawTrigger(type, date, time, dow, dom, moy) ==
    [trigger_type |-> type, start_date |-> date, start_time |-> time,
     interval_week_days |-> <<>>, days_of_week |-> dow, days_of_month |-> dom,
     months_of_year |-> moy, repetition_interval |-> <<>>, enabled |-> <<>>]

\* the same trigger with the enabled key set
WithEnabled(trigger, flag) == [trigger EXCEPT !.enabled = <<flag>>]

Opt(S) == {<<>>} \cup {<<v>> : v \in S}

TypeInputs == Opt({"daily", "weekly", "monthly", "one_time", "hourly"})
DateInputs == Opt({"2025-01-15", "2025-13-45", "15.01.2025"})
TimeInputs == Opt({"09:30", "9:30"})
WeekDayInputs == Opt({<<>>, <<"Monday">>, <<"Funday">>})
MonthDayInputs == Opt({<<>>, <<"Last">>, <<"1">>, <<"1", "Last">>, <<"32">>})
MonthInputs == Opt({<<>>, <<"AllMonths">>, <<"January">>, <<"Smarch">>})

\* the single trigger of a schedule file in the old format
LegacyTriggers ==
    {RawTrigger(ty, d, t, dow, dom, moy) :
        ty \in TypeInputs, d \in DateInputs, t \in TimeInputs,
        dow \in WeekDayInputs, dom \in MonthDayInputs, moy \in MonthInputs}

\* the entries of a schedule file in the new format
MultiTriggers ==
    {RawTrigger(ty, d, <<"09:30">>, <<>>, dom, <<>>) :
        ty \in Opt({"weekly", "monthly"}),
        d \in Opt({"2025-01-15"}),
        dom \in Opt({<<>>, <<"Last">>})}

Contents ==
    {[format |-> "legacy", triggers |-> <<t>>] : t \in LegacyTriggers}
    \cup {[format |-> "legacy", triggers |-> <<WithEnabled(t, FALSE)>>] :
             t \in {l \in LegacyTriggers : l.days_of_week = <<>> /\ l.months_of_year = <<>>}}
    \cup {[format |-> "multi", triggers |-> l] : l \in ListsUpTo(MultiTriggers, MaxTriggers)}

\* the keys of TRIGGER_FIELD_MAPPING, by their English names
TRIGGER_FIELD_MAPPING ==
    {"trigger_type", "start_date", "start_time", "interval_week_days",
     "days_of_week", "days_of_month", "months_of_year", "repetition_interval",
     "enabled"}

TRIGGER_DEFAULTS ==
    [trigger_type |-> NoValue, start_date |-> NoValue, start_time |-> NoValue,
     interval_week_days |-> 1, days_of_week |-> <<"Monday">>,
     days_of_month |-> <<"1">>, months_of_year |-> <<"January">>,
     run_on_last_day_of_month |-> FALSE, set_all_months |-> FALSE,
     repetition_interval |-> <<>>, enabled |-> TRUE]

RECURSIVE Remove(_, _)
\* list.remove(x): the first occurrence goes
Remove(list, x) ==
    IF list = <<>> THEN <<>>
    ELSE IF Head(list) = x THEN Tail(list)
    ELSE <<Head(list)>> \o Remove(Tail(list), x)

\* the body of _parse_single_trigger_legacy and of the loop of
\* _parse_multiple_triggers
ParseTrigger(trigger_data) ==
    LET filled == [k \in DOMAIN TRIGGER_DEFAULTS |->
                      IF k \in TRIGGER_FIELD_MAPPING /\ trigger_data[k] # <<>>
                      THEN trigger_data[k][1] ELSE TRIGGER_DEFAULTS[k]]
        last == "Last" \in Range(filled.days_of_month)
        all == "AllMonths" \in Range(filled.months_of_year)
    IN  [filled EXCEPT
            !.run_on_last_day_of_month = IF last THEN TRUE ELSE @,
            !.days_of_month = IF last THEN Remove(@, "Last") ELSE @,
            !.set_all_months = IF all THEN TRUE ELSE @,
            !.months_of_year = IF all THEN Remove(@, "AllMonths") ELSE @,
            !.repetition_interval = IF @ # <<>> THEN <<"PT">> \o @ ELSE @]

\* params['triggers'] of parse_schedule_params; ok is FALSE where it returns False
parse_schedule_params(file) ==
    IF file.format = "multi" /\ file.triggers = <<>>
    THEN [ok |-> FALSE, triggers |-> <<>>, reports |-> <<"error">>]
    ELSE [ok |-> TRUE,
          triggers |-> [i \in DOMAIN file.triggers |-> ParseTrigger(file.triggers[i])],
          reports |-> <<>>]

valid_trigger_types == {"daily", "weekly", "monthly"}
valid_month_days == {"1", "2", "3", "4", "5", "6", "7", "8", "9", "10", "11",
                     "12", "13", "14", "15", "16", "17", "18", "19", "20", "21",
                     "22", "23", "24", "25", "26", "27", "28", "29", "30", "31",
                     "Last"}
valid_week_days == {"Monday", "Tuesday", "Wednesday", "Thursday", "Friday",
                    "Saturday", "Sunday"}
valid_months == {"January", "February", "March", "April", "May", "June", "July",
                 "August", "September", "October", "November", "December",
                 "AllMonths"}

\* re.match(date_pattern, s), re.match(time_pattern, s)
MatchesDatePattern(s) == s \in {"2025-01-15", "2025-13-45"}
MatchesTimePattern(s) == s \in {"09:30"}
\* datetime.strptime(s, '%Y-%m-%d') and datetime.strptime(s, '%H:%M') succeed
StrptimeDate(s) == s \in {"2025-01-15"}
StrptimeTime(s) == s \in {"09:30", "9:30"}

IsStr(v) == v # NoValue

Problem(n, field, what) == [trigger |-> n, field |-> field, problem |-> what]

RECURSIVE InvalidItems(_, _, _, _)
\* one error for each item of list that is not in valid
InvalidItems(list, valid, n, field) ==
    IF list = <<>> THEN <<>>
    ELSE (IF Head(list) \notin valid THEN <<Problem(n, field, "invalid")>> ELSE <<>>)
         \o InvalidItems(Tail(list), valid, n, field)

RECURSIVE MissingKeys(_, _, _)
MissingKeys(keys, trigger, n) ==
    IF keys = <<>> THEN <<>>
    ELSE (IF Head(keys) \notin DOMAIN trigger
          THEN <<Problem(n, Head(keys), "missing")>> ELSE <<>>)
         \o MissingKeys(Tail(keys), trigger, n)

\* variant: an empty month-day list is never an error
M_CheckDaysOfMonth_noempty(trigger, n) ==
    IF Len(trigger.days_of_month) > 0 \/ trigger.run_on_last_day_of_month
    THEN InvalidItems(trigger.days_of_month, valid_month_days, n, "days_of_month")
    ELSE <<>>

\* lines 638-652
CheckDaysOfMonth(trigger, n) ==
    IF Len(trigger.days_of_month) > 0 \/ trigger.run_on_last_day_of_month
    THEN InvalidItems(trigger.days_of_month, valid_month_days, n, "days_of_month")
    ELSE IF trigger.trigger_type = "monthly"
         THEN <<Problem(n, "days_of_month", "empty")>>
         ELSE <<>>

\* lines 654-668
CheckDaysOfWeek(trigger, n) ==
    IF Len(trigger.days_of_week) > 0
    THEN InvalidItems(trigger.days_of_week, valid_week_days, n, "days_of_week")
    ELSE IF trigger.trigger_type = "weekly"
         THEN <<Problem(n, "days_of_week", "empty")>>
         ELSE <<>>

\* lines 670-684
CheckMonthsOfYear(trigger, n) ==
    IF Len(trigger.months_of_year) > 0 \/ trigger.set_all_months
    THEN InvalidItems(trigger.months_of_year, valid_months, n, "months_of_year")
    ELSE IF trigger.trigger_type = "monthly"
         THEN <<Problem(n, "months_of_year", "empty")>>
         ELSE <<>>

_validate_single_trigger(trigger, trigger_num) ==
    MissingKeys(<<"trigger_type", "start_date", "start_time">>, trigger, trigger_num)
    \o (IF trigger.trigger_type \notin valid_trigger_types
        THEN <<Problem(trigger_num, "trigger_type", "invalid")>> ELSE <<>>)
    \o (IF IsStr(trigger.start_date) /\ ~MatchesDatePattern(trigger.start_date)
        THEN <<Problem(trigger_num, "start_date", "format")>> ELSE <<>>)
    \o (IF IsStr(trigger.start_time) /\ ~MatchesTimePattern(trigger.start_time)
        THEN <<Problem(trigger_num, "start_time", "format")>> ELSE <<>>)
    \o (IF /\ IsStr(trigger.start_date) /\ IsStr(trigger.start_time)
           /\ ~(StrptimeDate(trigger.start_date) /\ StrptimeTime(trigger.start_time))
        THEN <<Problem(trigger_num, "start_date start_time", "calendar")>> ELSE <<>>)
    \o CheckDaysOfMonth(trigger, trigger_num)
    \o CheckDaysOfWeek(trigger, trigger_num)
    \o CheckMonthsOfYear(trigger, trigger_num)

RECURSIVE ValidateFrom(_, _)
\* for idx, trigger in enumerate(triggers): errors.extend(...)
ValidateFrom(triggers, idx) ==
    IF idx > Len(triggers) THEN <<>>
    ELSE _validate_single_trigger(triggers[idx], idx) \o ValidateFrom(triggers, idx + 1)

check_required_params(triggers) ==
    IF triggers = <<>>
    THEN [ok |-> FALSE, errors |-> <<Problem(0, "triggers", "missing")>>,
          reports |-> <<"error">>]
    ELSE LET found == ValidateFrom(triggers, 1)
         IN  [ok |-> found = <<>>, errors |-> found,
              reports |-> IF found # <<>> THEN <<"error">> ELSE <<>>]

NoParams == [ok |-> FALSE, triggers |-> <<>>]

TrigIdle ==
    /\ tpc = "idle" /\ content = [format |-> "legacy", triggers |-> <<>>]
    /\ params = NoParams /\ errors = <<>> /\ accepted = FALSE
    /\ Triggers = <<>> /\ created = "none" /\ registered = FALSE

TrigInit ==
    /\ tpc = "start"
    /\ content \in Contents
    /\ params = NoParams
    /\ errors = <<>>
    /\ accepted = FALSE
    /\ Triggers = <<>>
    /\ created = "none"
    /\ registered = FALSE

\* collect_primary_data: task_params = scheduler_manager.parse_schedule_params(...)
ParseSchedule ==
    /\ tpc = "start"
    /\ LET r == parse_schedule_params(content)
       IN  /\ params' = [ok |-> r.ok, triggers |-> r.triggers]
           /\ reported' = reported \o r.reports
           /\ ERROR_TYPES' = handle_error(ERROR_TYPES, r.reports)
    /\ tpc' = "parsed"
    /\ UNCHANGED <<content, errors, accepted, Triggers, created, registered>>
    /\ UNCHANGED <<codecVars, mergeVars, logVars, archVars, runVars, storeVars, normVars, cmdVars, tailVars, cycleVars>>

\* collect_primary_data: ... and scheduler_manager.check_required_params(task_params)
CheckParams ==
    /\ tpc = "parsed"
    /\ params.ok
    /\ LET r == check_required_params(params.triggers)
       IN  /\ accepted' = r.ok
           /\ errors' = r.errors
           /\ reported' = reported \o r.reports
           /\ ERROR_TYPES' = handle_error(ERROR_TYPES, r.reports)
    /\ tpc' = "checked"
    /\ UNCHANGED <<content, params, Triggers, created, registered>>
    /\ UNCHANGED <<codecVars, mergeVars, logVars, archVars, runVars, storeVars, normVars, cmdVars, tailVars, cycleVars>>

(***************************************************************************)
(* Trigger builder: create_or_update_task and _create_single_trigger.  A   *)
(* property of a native trigger is <<>> until it is assigned.              *)
(***************************************************************************)
\* TriggerConfig.__members__
TriggerConfig == {"one_time", "daily", "weekly", "monthly"}

\* DateConverter.Weekday and DateConverter.Month
Weekday == [Monday |-> 2, Tuesday |-> 3, Wednesday |-> 4, Thursday |-> 5,
            Friday |-> 6, Saturday |-> 7, Sunday |-> 1]
Month == [January |-> 1, February |-> 2, March |-> 3, April |-> 4, May |-> 5,
          June |-> 6, July |-> 7, August |-> 8, September |-> 9, October |-> 10,
          November |-> 11, December |-> 12]

\* the month-day whose str() is s
MonthDay(s) == CHOOSE day \in 1..31 : ToString(day) = s

\* (strptime(start_time, '%H:%M') + timedelta(hours=-3)).strftime('%H:%M:%S')
ShiftedTime(start_time) ==
    CASE start_time \in {"09:30", "9:30"} -> "06:30:00"

\* DateFormatter.format_start_time_and_date; raised names the exception
format_start_time_and_date(start_time, start_date) ==
    IF ~IsStr(start_time) THEN [raised |-> "TypeError", value |-> <<>>]
    ELSE IF ~StrptimeTime(start_time) THEN [raised |-> "ValueError", value |-> <<>>]
    ELSE [raised |-> "none",
          value |-> <<start_date, "T", ShiftedTime(start_time), "Z">>]

\* trigger_conf.create_trigger(task_definition)
NewTrigger(type) ==
    [Type |-> type, StartBoundary |-> <<>>, Enabled |-> <<>>, DaysInterval |-> <<>>,
     WeeksInterval |-> <<>>, DaysOfWeek |-> <<>>, DaysOfMonth |-> <<>>,
     MonthsOfYear |-> <<>>, RunOnLastDayOfMonth |-> <<>>, Repetition |-> <<>>]

\* TriggerConfig.configure_trigger
configure_trigger(trigger, start_datetime, interval, days_of_week, days_of_month, months_of_year) ==
    LET common == [trigger EXCEPT !.StartBoundary = <<start_datetime>>,
                                  !.Enabled = <<TRUE>>]
    IN  CASE trigger.Type = "daily" ->
                [common EXCEPT !.DaysInterval = <<interval>>]
          [] trigger.Type = "weekly" ->
                [common EXCEPT !.WeeksInterval = <<interval>>,
                               !.DaysOfWeek = <<days_of_week_to_bitmask(days_of_week)>>]
          [] trigger.Type = "monthly" ->
                [common EXCEPT !.DaysOfMonth = <<days_of_month_to_bitmask(days_of_month)>>,
                               !.MonthsOfYear = <<months_of_year_to_bitmask(months_of_year)>>]
          [] OTHER -> trigger

\* _create_single_trigger: the triggers it adds to the definition, the warning
\* it reports and the exception it raises
_create_single_trigger(trigger_config) ==
    LET trigger_type == trigger_config.trigger_type
        boundary == format_start_time_and_date(trigger_config.start_time,
                                               trigger_config.start_date)
        days_of_week == trigger_config.days_of_week
        months_of_year == trigger_config.months_of_year
        unknown_names == \/ \E i \in DOMAIN days_of_week : days_of_week[i] \notin DOMAIN Weekday
                         \/ \E i \in DOMAIN months_of_year : months_of_year[i] \notin DOMAIN Month
        new == NewTrigger(trigger_type)
    IN  IF ~IsStr(trigger_type) \/ trigger_type \notin TriggerConfig
        THEN [added |-> <<>>, reports |-> <<"warning">>, raised |-> "none"]
        ELSE IF boundary.raised # "none"
        THEN [added |-> <<new>>, reports |-> <<>>, raised |-> boundary.raised]
        ELSE IF unknown_names
        THEN [added |-> <<new>>, reports |-> <<>>, raised |-> "KeyError"]
        ELSE LET configured ==
                     configure_trigger(new, boundary.value,
                         trigger_config.interval_week_days,
                         [i \in DOMAIN days_of_week |-> Weekday[days_of_week[i]]],
                         [i \in DOMAIN trigger_config.days_of_month |->
                              MonthDay(trigger_config.days_of_month[i])],
                         [i \in DOMAIN months_of_year |-> Month[months_of_year[i]]])
                 monthly == trigger_type = "monthly"
                 special == [configured EXCEPT
                     !.RunOnLastDayOfMonth =
                         IF monthly /\ trigger_config.run_on_last_day_of_month
                         THEN <<TRUE>> ELSE @,
                     !.MonthsOfYear =
                         IF monthly /\ trigger_config.set_all_months
                         THEN <<PyInt(4095)>> ELSE @,
                     !.Repetition =
                         IF trigger_config.repetition_interval # <<>>
                         THEN <<trigger_config.repetition_interval>> ELSE @,
                     !.Enabled = <<trigger_config.enabled>>]
             IN  [added |-> <<special>>, reports |-> <<>>, raised |-> "none"]

RECURSIVE BuildTriggers(_, _, _)
\* the loop of create_or_update_task over triggers[idx..]: an exception named in
\* the except clause is reported as a warning, any other one leaves the loop
BuildTriggers(triggers, idx, state) ==
    IF idx > Len(triggers) THEN state
    ELSE LET r == _create_single_trigger(triggers[idx])
             next == [natives |-> state.natives \o r.added,
                      reports |-> state.reports \o r.reports,
                      successful_triggers |-> state.successful_triggers,
                      raised |-> "none"]
         IN  IF r.raised = "none"
             THEN BuildTriggers(triggers, idx + 1,
                      [next EXCEPT !.successful_triggers = @ + 1])
             ELSE IF r.raised \in {"com_error", "ValueError", "KeyError", "AttributeError"}
             THEN BuildTriggers(triggers, idx + 1,
                      [next EXCEPT !.reports = @ \o <<"warning">>])
             ELSE [next EXCEPT !.raised = r.raised]

create_or_update_task(triggers) ==
    LET loop == BuildTriggers(triggers, 1,
                    [natives |-> <<>>, reports |-> <<>>,
                     successful_triggers |-> 0, raised |-> "none"])
    IN  IF loop.raised # "none"
        THEN [result |-> loop.raised, natives |-> loop.natives,
              registered |-> FALSE, reports |-> loop.reports]
        ELSE IF loop.successful_triggers = 0
        THEN [result |-> "False", natives |-> loop.natives,
              registered |-> FALSE, reports |-> loop.reports \o <<"error">>]
        ELSE [result |-> "True", natives |-> loop.natives,
              registered |-> TRUE, reports |-> loop.reports]

\* collect_primary_data: scheduler_manager.create_or_update_task(**task_params)
CreateTask ==
    /\ tpc = "checked"
    /\ accepted
    /\ LET r == create_or_update_task(params.triggers)
       IN  /\ Triggers' = r.natives
           /\ created' = r.result
           /\ registered' = r.registered
           /\ reported' = reported \o r.reports
           /\ ERROR_TYPES' = handle_error(ERROR_TYPES, r.reports)
    /\ tpc' = "created"
    /\ UNCHANGED <<content, params, errors, accepted>>
    /\ UNCHANGED <<codecVars, mergeVars, logVars, archVars, runVars, storeVars, normVars, cmdVars, tailVars, cycleVars>>

TrigNext == ParseSchedule \/ CheckParams \/ CreateTask

(***************************************************************************)
(* Archive mover.  A folder holds files (name -> version) and at most one  *)
(* subfolder, itself a map of files; a file of the job folder has version  *)
(* "incoming", a file already in the archive has version "archived".       *)
(***************************************************************************)
\* ---- bounds ----
MaxFiles == 2

FileNames == 1..MaxFiles

FolderOf(files, sub, version) ==
    [files |-> [n \in files |-> version],
     sub |-> IF sub = <<>> THEN <<>> ELSE <<[n \in sub[1] |-> version]>>]

Folders(version) ==
    {FolderOf(files, sub, version) :
        files \in SUBSET FileNames, sub \in Opt(SUBSET FileNames)}

\* shutil.copy2 of every file of from into the directory holding onto
CopyFiles(onto, from) ==
    [n \in DOMAIN onto \cup DOMAIN from |-> IF n \in DOMAIN from THEN from[n] ELSE onto[n]]

\* the loop over source.iterdir() when the destination exists (lines 526-540)
MergeCopy(src, dst) ==
    [files |-> CopyFiles(dst.files, src.files),
     sub |-> IF src.sub # <<>> THEN src.sub ELSE dst.sub]

move_folder_to_archive(src, dst) ==
    IF dst # <<>>
    THEN [destination |-> <<MergeCopy(src[1], dst[1])>>, source |-> <<>>,
          returned |-> "destination", reports |-> <<"info">>]
    ELSE [destination |-> src, source |-> <<>>,
          returned |-> "destination", reports |-> <<>>]

ArchIdle ==
    /\ apc = "idle" /\ source = <<>> /\ destination = <<>>
    /\ sourceAfter = <<>> /\ destinationAfter = <<>> /\ returned = "none"

ArchInit ==
    /\ apc = "start"
    /\ source \in {<<f>> : f \in Folders("incoming")}
    /\ destination \in Opt(Folders("archived"))
    /\ sourceAfter = source
    /\ destinationAfter = destination
    /\ returned = "none"

\* task_data_processing: move_folder_to_archive(task_file_path)
MoveFolder ==
    /\ apc = "start"
    /\ LET r == move_folder_to_archive(source, destination)
       IN  /\ sourceAfter' = r.source
           /\ destinationAfter' = r.destination
           /\ returned' = r.returned
           /\ reported' = reported \o r.reports
           /\ ERROR_TYPES' = handle_error(ERROR_TYPES, r.reports)
    /\ apc' = "moved"
    /\ UNCHANGED <<source, destination>>
    /\ UNCHANGED <<codecVars, mergeVars, logVars, trigVars, runVars, storeVars, normVars, cmdVars, tailVars, cycleVars>>

ArchNext == MoveFolder

(***************************************************************************)
(* One run of main: the update cycle or the insert cycle over the folders  *)
(* of the roots, the teardown and the error report.  The scheduler folder  *)
(* holds the tasks this run registers; every folder has its command file.  *)
(***************************************************************************)
\* the folders of the roots, in the order iterdir gives them
Ids == <<"REQ1", "REQ2">>
IdSet == Range(Ids)

TaskSets == {{"daily_update"}, {"find"}, {"find", "REQ1"}, {"daily_update", "REQ1"}, {}}
FolderStates == {"none", "old", "today"}
PrimaryStates == {"none", "postgre", "both"}
ScheduleKinds == {"weekly", "notime", "notype", "nofile"}

\* the schedule file of each kind: a valid weekly trigger, a daily trigger
\* without start time, a trigger without type
ScheduleFile(kind) ==
    [format |-> "legacy",
     triggers |-> <<CASE kind = "weekly" ->
                        RawTrigger(<<"weekly">>, <<"2025-01-15">>, <<"09:30">>,
                                   << <<"Monday">> >>, <<>>, <<>>)
                      [] kind = "notime" ->
                        RawTrigger(<<"daily">>, <<"2025-01-15">>, <<>>, <<>>, <<>>, <<>>)
                      [] kind = "notype" ->
                        RawTrigger(<<>>, <<"2025-01-15">>, <<"09:30">>, <<>>, <<>>, <<>>)>>]

\* F applied to the value of v, which is computed once
Once(v, F(_)) == CHOOSE y \in {F(x) : x \in {v}} : TRUE

\* collect_primary_data, lines 44-50: parse, check and register the schedule of
\* one folder
RegisterSchedule(kind) ==
    IF kind = "nofile"
    THEN [reports |-> <<"warning">>, raised |-> "none", natives |-> <<>>]
    ELSE Once(parse_schedule_params(ScheduleFile(kind)), LAMBDA p :
           IF ~p.ok
           THEN [reports |-> p.reports, raised |-> "none", natives |-> <<>>]
           ELSE Once(check_required_params(p.triggers), LAMBDA c :
                  IF ~c.ok
                  THEN [reports |-> p.reports \o c.reports, raised |-> "none",
                        natives |-> <<>>]
                  ELSE Once(create_or_update_task(p.triggers), LAMBDA t :
                         [reports |-> p.reports \o c.reports \o t.reports,
                          raised |-> IF t.result \in {"True", "False"} THEN "none"
                                     ELSE t.result,
                          natives |-> IF t.registered THEN t.natives ELSE <<>>])))

\* what registering gives for each kind of schedule file
Registered == [kind \in ScheduleKinds |-> RegisterSchedule(kind)]

(***************************************************************************)
(* process_cmd_files.  A line of the command file is the sequence of the   *)
(* directives the patterns match in it, left to right: a mail dispatch     *)
(* (sender_pattern) or a report name (theme_pattern).                      *)
(***************************************************************************)
MaxLines == 3

Mail(emails, theme) == [d |-> "mail", emails |-> emails, theme |-> theme]
ReportName(value) == [d |-> "name", emails |-> "", theme |-> value]

CmdLines ==
    {<<>>,
     <<Mail("a@x.com", "Daily Report")>>,
     <<Mail("b@x.com", "Weekly Report")>>,
     <<ReportName("Renamed")>>,
     <<ReportName("Renamed again")>>,
     <<Mail("a@x.com", "Daily Report"), Mail("b@x.com", "Weekly Report")>>}

CmdContents == ListsUpTo(CmdLines, MaxLines)

\* pattern.search(line): the leftmost match of the pattern in the line
Search(line, d) ==
    LET at == {i \in DOMAIN line : line[i].d = d}
    IN  IF at = {} THEN <<>> ELSE <<line[Min(at)]>>

\* variant: the lines are scanned from the start of the file
M_SenderMatch_forward(text, i) ==
    LET at == {j \in DOMAIN text : Search(text[j], "mail") # <<>>}
    IN  IF at = {} THEN <<>> ELSE Search(text[Min(at)], "mail")

RECURSIVE SenderMatch(_, _)
\* lines 253-267: for line in reversed(content.splitlines()), break at the
\* first line sender_pattern matches
SenderMatch(text, i) ==
    IF i = 0 THEN <<>>
    ELSE IF Search(text[i], "mail") # <<>> THEN Search(text[i], "mail")
    ELSE SenderMatch(text, i - 1)

RECURSIVE ThemeMatch(_, _)
\* line 270: theme_pattern.search(content), the first match from the start
ThemeMatch(text, i) ==
    IF i > Len(text) THEN <<>>
    ELSE IF Search(text[i], "name") # <<>> THEN Search(text[i], "name")
    ELSE ThemeMatch(text, i + 1)

\* variant: the report name is kept only when no mail dispatch gave a theme
M_Themed_keep(info, theme_match) ==
    IF theme_match = <<>> \/ "theme" \in DOMAIN info THEN info
    ELSE [k \in DOMAIN info \cup {"theme"} |->
             IF k = "theme" THEN theme_match[1].theme ELSE info[k]]

\* lines 271-272: task_info['theme'] = theme_match.group(1)
Themed(info, theme_match) ==
    IF theme_match = <<>> THEN info
    ELSE [k \in DOMAIN info \cup {"theme"} |->
             IF k = "theme" THEN theme_match[1].theme ELSE info[k]]

\* process_cmd_files: file is "none" when the folder holds no command file,
\* "unreadable" when reading it raises, "read" otherwise
process_cmd_files(request_id, file, text) ==
    LET bare == [task_name |-> request_id]
        sender_match == SenderMatch(text, Len(text))
        sent == IF sender_match = <<>> THEN bare
                ELSE [task_name |-> request_id, sender_type |-> "mailer_name.exe",
                      emails |-> sender_match[1].emails,
                      theme |-> sender_match[1].theme]
    IN  CASE file = "none" -> [info |-> bare, reports |-> <<>>]
          [] file = "unreadable" -> [info |-> bare, reports |-> <<"warning">>]
          [] OTHER -> [info |-> Themed(sent, ThemeMatch(text, 1)), reports |-> <<>>]

CmdIdle == kpc = "idle" /\ cmd_file = "none" /\ cmd_content = <<>> /\ task_info = <<>>

CmdInit ==
    /\ kpc = "found"
    /\ cmd_file \in {"none", "unreadable", "read"}
    /\ cmd_content \in CmdContents
    /\ cmd_file = "none" => cmd_content = <<>>
    /\ task_info = <<>>

\* collect_primary_data, line 51: process_cmd_files(str(path))
ProcessCmd ==
    /\ kpc = "found"
    /\ \E r \in {process_cmd_files("REQ1", cmd_file, cmd_content)} :
         /\ task_info' = r.info
         /\ reported' = reported \o r.reports
         /\ ERROR_TYPES' = handle_error(ERROR_TYPES, r.reports)
    /\ kpc' = "processed"
    /\ UNCHANGED <<cmd_file, cmd_content>>
    /\ UNCHANGED <<codecVars, mergeVars, logVars, trigVars, archVars, runVars, storeVars, normVars, tailVars, cycleVars>>

CmdNext == ProcessCmd

\* the command file of the folders of a run: one mail dispatch line
RunCmdContent == << <<Mail("a@x.com", "Daily Report")>> >>

\* lines 53-58: postgre_data, then oracle_data
MainRows(request_id, where) ==
    (IF where \in {"postgre", "both"}
     THEN <<[request_id |-> request_id, customer_login |-> "postgre"]>> ELSE <<>>)
    \o (IF where = "both"
        THEN <<[request_id |-> request_id, customer_login |-> "oracle"]>> ELSE <<>>)

\* get_task_info followed by task_data_processing for one task: the task is
\* read back when it was registered, else the read fails and gives {}
TaskInfo(request_id, natives) ==
    IF natives = <<>>
    THEN [record |-> EmptyRecord, reports |-> <<"warning">>]
    ELSE [record |-> [task_name |-> request_id,
                      task_schedule_type |-> natives[1].Type],
          reports |-> <<>>]

RECURSIVE process_main_data(_)
process_main_data(data) ==
    IF data = <<>> THEN <<>>
    ELSE LET d == Head(data)
             typed == IF "request_id" \in DOMAIN d
                      THEN [k \in DOMAIN d \cup {"task_name"} |->
                               IF k = "task_name" THEN d["request_id"] ELSE d[k]]
                      ELSE d
         IN  <<typed>> \o process_main_data(Tail(data))

NoData ==
    [main_data_list |-> <<>>, tasks_data_list |-> <<>>, report_mails_theme |-> <<>>,
     log_data_list |-> <<>>, reports |-> <<>>, raised |-> "none", collected |-> <<>>]

\* one pass of the loop of collect_primary_data: what the folder adds to the lists
CollectOne(request_id, with_logs, where, kind) ==
    Once(<<Registered[kind], MissingLog(request_id)>>, LAMBDA v :
      Once(TaskInfo(request_id, v[1].natives), LAMBDA info :
        IF v[1].raised # "none"
        THEN [NoData EXCEPT !.reports = v[1].reports, !.raised = v[1].raised,
                            !.collected = <<request_id>>]
        ELSE [main_data_list |-> MainRows(request_id, where),
              tasks_data_list |-> <<info.record>>,
              report_mails_theme |-> <<process_cmd_files(request_id, "read", RunCmdContent).info>>,
              log_data_list |-> IF with_logs THEN <<v[2].log_info>> ELSE <<>>,
              reports |-> v[1].reports \o info.reports
                          \o (IF with_logs THEN v[2].reports ELSE <<>>),
              raised |-> "none",
              collected |-> <<request_id>>]))

RECURSIVE CollectFrom(_, _, _, _, _)
\* the loop of collect_primary_data over root_paths[i..]; an exception leaves it
CollectFrom(root_paths, i, with_logs, where, kinds) ==
    IF i > Len(root_paths) THEN NoData
    ELSE Once(CollectOne(root_paths[i], with_logs, where[root_paths[i]],
                         kinds[root_paths[i]]), LAMBDA one :
           IF one.raised # "none" THEN one
           ELSE Once(CollectFrom(root_paths, i + 1, with_logs, where, kinds), LAMBDA rest :
                  [main_data_list |-> one.main_data_list \o rest.main_data_list,
                   tasks_data_list |-> one.tasks_data_list \o rest.tasks_data_list,
                   report_mails_theme |-> one.report_mails_theme \o rest.report_mails_theme,
                   log_data_list |-> one.log_data_list \o rest.log_data_list,
                   reports |-> one.reports \o rest.reports,
                   raised |-> rest.raised,
                   collected |-> one.collected \o rest.collected]))

\* collect_primary_data; opens names the connections the two batch fetches open
collect_primary_data(root_paths, with_logs, where, kinds) ==
    [data |-> CollectFrom(root_paths, 1, with_logs, where, kinds),
     opens |-> IF root_paths # <<>>
               THEN {<<"shared", "oracle">>, <<"shared", "postgre">>} ELSE {}]



\* variant: only the MSSQL connection of the connector is closed
M_close_connections_mssql(open, connector) ==
    {c \in open : c[1] # connector \/ c[2] # "mssql"}

\* DatabaseConnector.close_connections: every connection of the connector goes
close_connections(open, connector) == {c \in open : c[1] # connector}

\* DatabaseConnector.__del__, run when the last reference to a connector made
\* inside a function goes away at its return
Dropped(open, connector) == close_connections(open, connector)

\* request_id.startswith(prefix) for the folder names of the model
StartsWith(request_id, prefix) == prefix = "REQ"

\* path_find_walker; search_folder is <<>> for None
path_find_walker(type, search_folder, folders, stored) ==
    LET all_candidate_paths == SelectSeq(Ids, LAMBDA id : folders[id] # "none")
        opens == IF type = "walk" /\ all_candidate_paths # <<>>
                 THEN {<<"walker", "mssql">>} ELSE {}
    IN  [paths |-> IF type = "walk"
                   THEN SelectSeq(all_candidate_paths, LAMBDA id : id \in stored)
                   ELSE IF type = "find"
                   THEN IF search_folder # <<>>
                        THEN SelectSeq(all_candidate_paths, LAMBDA id : id = search_folder[1])
                        ELSE all_candidate_paths
                   ELSE <<>>,
         opened |-> opens,
         open |-> Dropped(opens, "walker")]

\* variant: the folders made today are returned without the existence check
M_find_new_folders_unfiltered(folders, stored) ==
    LET all_folders == path_find_walker("find", <<>>, folders, stored)
    IN  [paths |-> SelectSeq(all_folders.paths,
                       LAMBDA id : folders[id] = "today" /\ StartsWith(id, "REQ")),
         opened |-> all_folders.opened,
         open |-> all_folders.open]

find_new_folders_not_in_db(folders, stored) ==
    LET all_folders == path_find_walker("find", <<>>, folders, stored)
        candidates == SelectSeq(all_folders.paths,
                          LAMBDA id : folders[id] = "today" /\ StartsWith(id, "REQ"))
        opens == IF candidates # <<>> THEN {<<"finder", "mssql">>} ELSE {}
    IN  [paths |-> SelectSeq(candidates, LAMBDA id : id \notin stored),
         opened |-> all_folders.opened \cup opens,
         open |-> all_folders.open \cup Dropped(opens, "finder")]

\* update_tasks_in_db and insert_new_item_in_db: one batch, when there are records
StoreBatch(op, records) ==
    IF records = <<>> THEN [writes |-> <<>>, opens |-> {}, reports |-> <<>>]
    ELSE [writes |-> <<[op |-> op, records |-> records]>>,
          opens |-> {<<"shared", "mssql">>},
          reports |-> IF op = "insert" THEN <<"info">> ELSE <<>>]

\* update_data, lines 82-91, on what was collected
UpdateCollected(c) ==
    Once(StoreBatch("update",
             merge_with_existing_data(
                 merge_with_existing_data(
                     merge_with_existing_data(
                         process_main_data(c.data.main_data_list),
                         c.data.tasks_data_list),
                     c.data.log_data_list),
                 c.data.report_mails_theme)), LAMBDA batch :
      IF c.data.raised # "none"
      THEN [raised |-> c.data.raised, collected |-> c.data.collected,
            reports |-> c.data.reports, writes |-> <<>>, opens |-> c.opens]
      ELSE [raised |-> "none", collected |-> c.data.collected,
            reports |-> c.data.reports \o batch.reports, writes |-> batch.writes,
            opens |-> c.opens \cup batch.opens])

update_data(folders, stored, where, kinds) ==
    Once(path_find_walker("walk", <<>>, folders, stored), LAMBDA root_paths :
      Once(UpdateCollected(collect_primary_data(root_paths.paths, TRUE, where, kinds)),
           LAMBDA u :
             [raised |-> u.raised, collected |-> u.collected, reports |-> u.reports,
              writes |-> u.writes,
              opened |-> root_paths.opened \cup u.opens,
              open |-> root_paths.open \cup u.opens]))

RECURSIVE FindEach(_, _, _)
\* lines 115-118: the folders of the identifiers that have no row yet
FindEach(request_ids, folders, stored) ==
    IF request_ids = <<>> THEN <<>>
    ELSE (IF Head(request_ids) \notin stored
          THEN path_find_walker("find", <<Head(request_ids)>>, folders, stored).paths
          ELSE <<>>)
         \o FindEach(Tail(request_ids), folders, stored)

\* insert_data, lines 135-147, on what was collected
InsertCollected(c) ==
    IF c.data.raised # "none" \/ c.data.main_data_list = <<>>
    THEN [raised |-> c.data.raised, collected |-> c.data.collected,
          reports |-> c.data.reports, writes |-> <<>>, opens |-> c.opens]
    ELSE Once(StoreBatch("insert",
                  merge_with_existing_data(
                      merge_with_existing_data(
                          process_main_data(c.data.main_data_list),
                          c.data.tasks_data_list),
                      c.data.report_mails_theme)), LAMBDA batch :
           [raised |-> "none", collected |-> c.data.collected,
            reports |-> c.data.reports \o batch.reports, writes |-> batch.writes,
            opens |-> c.opens \cup batch.opens])

\* insert_data, lines 106-125: the folders to collect when identifiers are given
ListedFolders(request_id_list, folders, stored) ==
    Once(SelectSeq(Ids, LAMBDA id : id \in request_id_list
                                    /\ StartsWith(id, "entity_name")),
         LAMBDA valid_request_ids :
           Once(IF valid_request_ids # <<>> THEN {<<"shared", "mssql">>} ELSE {},
                LAMBDA lookups :
                  [paths |-> FindEach(valid_request_ids, folders, stored),
                   opened |-> lookups, open |-> lookups]))

\* insert_data; request_id_list is <<>> for None
insert_data(request_id_list, folders, stored, where, kinds) ==
    Once(IF request_id_list # <<>> /\ request_id_list[1] # {}
         THEN [listed |-> TRUE, found |-> ListedFolders(request_id_list[1], folders, stored)]
         ELSE [listed |-> FALSE, found |-> find_new_folders_not_in_db(folders, stored)],
         LAMBDA f :
           Once(InsertCollected(
                    IF f.listed /\ f.found.paths = <<>>
                    THEN [data |-> NoData, opens |-> {}]
                    ELSE collect_primary_data(f.found.paths, FALSE, where, kinds)),
                LAMBDA i :
                  [raised |-> i.raised, collected |-> i.collected, reports |-> i.reports,
                   writes |-> i.writes,
                   opened |-> f.found.opened \cup i.opens,
                   open |-> f.found.open \cup i.opens]))

\* variant: a configured mailer sends whatever was reported
M_send_error_report_always(error_types, configured) ==
    IF ~configured THEN "unconfigured" ELSE "attempted"

\* send_error_report
send_error_report(error_types, configured) ==
    IF error_types \cap {"error", "critical"} = {} THEN "nothing"
    ELSE IF ~configured THEN "unconfigured"
    ELSE "attempted"

NoWork ==
    [raised |-> "none", collected |-> <<>>, reports |-> <<>>, writes |-> <<>>,
     opened |-> {}, open |-> {}]

RunIdle ==
    /\ rpc = "idle" /\ tasks = {} /\ disk = <<>> /\ store = {} /\ primary = <<>>
    /\ schedules = <<>> /\ mailer = FALSE /\ connections = {} /\ opened = {}
    /\ collected = <<>> /\ writes = <<>> /\ sends = <<>>

RunInit ==
    /\ rpc = "start"
    /\ tasks \in TaskSets
    /\ disk \in [IdSet -> FolderStates]
    /\ store \in SUBSET IdSet
    /\ primary \in [IdSet -> PrimaryStates]
    /\ schedules \in [IdSet -> ScheduleKinds]
    /\ mailer \in BOOLEAN
    /\ connections = {}
    /\ opened = {}
    /\ collected = <<>>
    /\ writes = <<>>
    /\ sends = <<>>

\* main, lines 12-22: the cycle the arguments ask for; what it raises is
\* reported as critical
Work ==
    /\ rpc = "start"
    /\ \E r \in {IF "daily_update" \in tasks
                 THEN update_data(disk, store, primary, schedules)
                 ELSE IF tasks # {}
                 THEN insert_data(<<>>, disk, store, primary, schedules)
                 ELSE NoWork} :
         \E all \in {r.reports \o (IF r.raised # "none" THEN <<"critical">> ELSE <<>>)} :
           /\ collected' = r.collected
           /\ writes' = r.writes
           /\ opened' = r.opened
           /\ connections' = r.open
           /\ reported' = reported \o all
           /\ ERROR_TYPES' = handle_error(ERROR_TYPES, all)
    /\ rpc' = "worked"
    /\ UNCHANGED <<tasks, disk, store, primary, schedules, mailer, sends>>
    /\ UNCHANGED <<codecVars, mergeVars, logVars, trigVars, archVars, storeVars, normVars, cmdVars, tailVars, cycleVars>>

\* main, lines 24-29: connector.close_connections()
Teardown ==
    /\ rpc = "worked"
    /\ connections' = close_connections(connections, "shared")
    /\ rpc' = "closed"
    /\ UNCHANGED <<tasks, disk, store, primary, schedules, mailer, opened, collected,
                   writes, sends>>
    /\ UNCHANGED <<codecVars, mergeVars, logVars, errVars, trigVars, archVars, storeVars, normVars, cmdVars, tailVars, cycleVars>>

\* main, line 31: send_error_report(ERROR_TYPES)
Report ==
    /\ rpc = "closed"
    /\ sends' = Append(sends, [after |-> rpc,
                               outcome |-> send_error_report(ERROR_TYPES, mailer)])
    /\ rpc' = "returned"
    /\ UNCHANGED <<tasks, disk, store, primary, schedules, mailer, connections, opened,
                   collected, writes>>
    /\ UNCHANGED <<codecVars, mergeVars, logVars, errVars, trigVars, archVars, storeVars, normVars, cmdVars, tailVars, cycleVars>>

RunNext == Work \/ Teardown \/ Report

(***************************************************************************)
(* The batched write to dbo.autoreports: update_tasks_in_db and            *)
(* insert_new_item_in_db build one parameter list and hand it to           *)
(* execute_mssql_query, which runs it with cursor.executemany.             *)
(***************************************************************************)
MaxBatch == 3

Batches == {b \in ListsUpTo(Names, MaxBatch) : b # <<>>}

\* cursor.executemany: the statements run in order and the first one the store
\* rejects raises DatabaseError, the ones after it are not run
executemany(batch, rejected) ==
    LET bad == rejected \cap DOMAIN batch
    IN  IF bad = {} THEN [applied |-> DOMAIN batch, raised |-> FALSE]
        ELSE [applied |-> 1..(Min(bad) - 1), raised |-> TRUE]

\* connection.commit(): what the transaction applied is kept
commit(committed, applied) == committed \cup applied

\* connection.rollback(): what the transaction applied is undone
rollback(committed, applied) == committed

\* execute_mssql_query with a non-empty parameter list
execute_mssql_query(batch, rejected) ==
    LET ran == executemany(batch, rejected)
    IN  IF ran.raised
        THEN [table |-> rollback({}, ran.applied), reports |-> <<"critical">>]
        ELSE [table |-> commit({}, ran.applied), reports |-> <<>>]

\* two of the columns of dbo.autoreports and the record fields they are set from
Columns == {"report_name", "last_send_status"}
FieldOf(column) == IF column = "report_name" THEN "theme" ELSE column
NullValue == "NULL"

StoredRows == [Columns -> {"old", NullValue}]
MergedFields == UNION {[present -> {"new"}] : present \in SUBSET {FieldOf(c) : c \in Columns}}

\* update_tasks_in_db: UPDATE dbo.autoreports SET every column = data.get(field, None)
update_tasks_in_db(row, data) ==
    [c \in Columns |-> IF FieldOf(c) \in DOMAIN data THEN data[FieldOf(c)] ELSE NullValue]

StoreIdle ==
    /\ qpc = "idle" /\ query = "none" /\ params_list = <<>> /\ failing = {} /\ table = {}
    /\ row_before = <<>> /\ update_fields = <<>> /\ row_after = <<>>

StoreInit ==
    /\ qpc = "built"
    /\ query \in {"insert", "update"}
    /\ params_list \in Batches
    /\ failing \in SUBSET (1..MaxBatch)
    /\ table = {}
    /\ row_before \in StoredRows
    /\ update_fields \in MergedFields
    /\ row_after = row_before

\* update_tasks_in_db / insert_new_item_in_db: self.execute_mssql_query(query, params_list)
ExecuteQuery ==
    /\ qpc = "built"
    /\ \E r \in {execute_mssql_query(params_list, failing)} :
         /\ table' = r.table
         /\ row_after' = IF query = "update" /\ 1 \in r.table
                         THEN update_tasks_in_db(row_before, update_fields)
                         ELSE row_before
         /\ reported' = reported \o r.reports
         /\ ERROR_TYPES' = handle_error(ERROR_TYPES, r.reports)
    /\ qpc' = "returned"
    /\ UNCHANGED <<query, params_list, failing, row_before, update_fields>>
    /\ UNCHANGED <<codecVars, mergeVars, logVars, trigVars, archVars, runVars, normVars, cmdVars, tailVars, cycleVars>>

StoreNext == ExecuteQuery

(***************************************************************************)
(* Trigger normalisation: SchedulerDataProcessor.process_trigger_info on   *)
(* the triggers get_task_info read back.  A text is a sequence of pieces,  *)
(* the empty text is <<>>; a null result field is <<>>, a set one <<text>>.*)
(***************************************************************************)
MaxInfo == 2

NoneV == [t |-> "None", s |-> <<>>, n |-> 0]
StrV(s) == [t |-> "str", s |-> s, n |-> 0]
IntV(n) == [t |-> "int", s |-> <<>>, n |-> n]
BoolV(b) == [t |-> "bool", s |-> <<>>, n |-> IF b THEN 1 ELSE 0]
ListV(items) == [t |-> "list", s |-> items, n |-> 0]

\* Python truth value
TruthyV(v) ==
    CASE v.t = "None" -> FALSE
      [] v.t \in {"str", "list"} -> v.s # <<>>
      [] OTHER -> v.n # 0

\* str(v), as an f-string renders it
Str(v) ==
    CASE v.t = "None" -> <<"None">>
      [] v.t = "str" -> v.s
      [] v.t = "int" -> <<ToString(v.n)>>
      [] v.t = "bool" -> IF v.n = 1 THEN <<"True">> ELSE <<"False">>
      [] OTHER -> <<"[">> \o Join([i \in DOMAIN v.s |-> <<"'", v.s[i], "'">>], <<", ">>) \o <<"]">>

\* SchedulerDataProcessor.fields, the schedule keys
fields ==
    [k \in {"Trigger State", "Schedule Type", "StartBoundary", "DaysInterval",
            "WeeksInterval", "DaysOfWeek", "MonthsOfYear", "DaysOfMonth", "Repeat_every",
            "Repeat_until_time", "Repeat_until_duration"} |->
        CASE k = "Trigger State" -> "task_trigger_status"
          [] k = "Schedule Type" -> "task_schedule_type"
          [] k = "StartBoundary" -> "task_schedule_start_date"
          [] k = "DaysInterval" -> "task_schedule_days_interval"
          [] k = "WeeksInterval" -> "task_schedule_weeks_interval"
          [] k = "DaysOfWeek" -> "task_schedule_week_days"
          [] k = "MonthsOfYear" -> "task_schedule_months"
          [] k = "DaysOfMonth" -> "task_schedule_month_days"
          [] k = "Repeat_every" -> "task_schedule_repeat_every"
          [] k = "Repeat_until_time" -> "task_schedule_repeat_until_time"
          [] OTHER -> "task_schedule_repeat_until_duration"]

ScheduleFields == {fields[k] : k \in DOMAIN fields}

KeyOf(field) == CHOOSE k \in DOMAIN fields : fields[k] = field

\* DateFormatter.format_datetime on a 'YYYY-MM-DDTHH:MM:SS' text or on None,
\* then rendered: the datetime prints with a blank for the T
format_datetime(date_obj) ==
    IF date_obj.t = "str"
    THEN StrV([i \in DOMAIN date_obj.s |-> IF date_obj.s[i] = "T" THEN " " ELSE date_obj.s[i]])
    ELSE NoneV

\* one trigger as get_task_info lists it
ReadTrigger(type, boundary, state, interval, week_days) ==
    [k \in DOMAIN fields |->
        CASE k = "Schedule Type" -> type
          [] k = "StartBoundary" -> boundary
          [] k = "Trigger State" -> state
          [] k = "DaysInterval" -> interval
          [] k = "DaysOfWeek" -> week_days
          [] OTHER -> NoneV]

Boundary == StrV(<<"2025-01-15", "T", "06:30:00">>)

ReadTriggers ==
    {ReadTrigger(StrV(<<"weekly">>), Boundary, BoolV(TRUE), NoneV, ListV(<<"Monday", "Friday">>)),
     ReadTrigger(StrV(<<"weekly">>), Boundary, BoolV(TRUE), NoneV, ListV(<<"Monday">>)),
     ReadTrigger(StrV(<<"daily">>), Boundary, BoolV(TRUE), IntV(1), NoneV),
     ReadTrigger(StrV(<<"daily">>), Boundary, BoolV(FALSE), IntV(0), NoneV),
     ReadTrigger(StrV(<<"monthly">>), Boundary, BoolV(TRUE), NoneV, ListV(<<>>)),
     ReadTrigger(StrV(<<>>), Boundary, BoolV(TRUE), IntV(1), NoneV),
     ReadTrigger(NoneV, Boundary, NoneV, NoneV, NoneV),
     ReadTrigger(NoneV, NoneV, NoneV, NoneV, NoneV)}

ScheduleInfos == ListsUpTo(ReadTriggers, MaxInfo)

\* prefix = f'Trigger {index + 1}: ' if add_prefix else ''
Prefix(schedule, index) ==
    IF Len(schedule) > 1 THEN <<"Trigger ", ToString(index), ": ">> ELSE <<>>

\* the text one trigger appends to schedule_data for one key, lines 89-104
Appended(trigger, trigger_key, prefix) ==
    LET trigger_value == trigger[trigger_key]
    IN  IF trigger_key = "StartBoundary"
        THEN prefix \o Str(format_datetime(trigger_value))
        ELSE IF trigger_key \in {"DaysOfWeek", "DaysOfMonth", "MonthsOfYear"}
                /\ TruthyV(trigger_value)
        THEN prefix \o Join([i \in DOMAIN trigger_value.s |-> <<trigger_value.s[i]>>], <<", ">>)
        ELSE prefix \o Str(trigger_value)

\* process_trigger_info
process_trigger_info(schedule) ==
    [key \in ScheduleFields |->
        LET value == [i \in DOMAIN schedule |->
                         Appended(schedule[i], KeyOf(key), Prefix(schedule, i))]
            joined_value == Join(SelectSeq(value, LAMBDA text : text # <<>>), <<", ">>)
        IN  IF joined_value # <<>> THEN <<joined_value>> ELSE <<>>]

NormIdle == npc = "idle" /\ schedule_info = <<>> /\ schedule_result = <<>>

NormInit ==
    /\ npc = "read"
    /\ schedule_info \in ScheduleInfos
    /\ schedule_result = <<>>

\* task_data_processing, lines 162-165: self.process_trigger_info(task_value)
ProcessTriggers ==
    /\ npc = "read"
    /\ schedule_result' = process_trigger_info(schedule_info)
    /\ npc' = "processed"
    /\ UNCHANGED schedule_info
    /\ UNCHANGED <<codecVars, mergeVars, logVars, errVars, trigVars, archVars, runVars, storeVars, cmdVars, tailVars, cycleVars>>

NormNext == ProcessTriggers

(***************************************************************************)
(* read_last_n_lines: the file is read in blocks of BUFFER_SIZE bytes from  *)
(* its end.  A text is a sequence of characters.                            *)
(***************************************************************************)
MaxFileSize == 4
MaxWanted == 2
BUFFER_SIZE == 2

FileChars == {"a", "b", " ", "\n"}

Files == UNION {[1..k -> FileChars] : k \in 0..MaxFileSize}

\* line.strip() is not empty
NotBlank(line) == Strip(line, {" "}) # <<>>

RECURSIVE ReadBlocks(_, _, _, _, _, _)
\* lines 348-376: while len(lines) < n and position > 0
ReadBlocks(file, n, position, buffer, lines, reads) ==
    IF ~(Len(lines) < n /\ position > 0) THEN [lines |-> lines, reads |-> reads]
    ELSE LET chunk_size == IF BUFFER_SIZE < position THEN BUFFER_SIZE ELSE position
             at == position - chunk_size
             text == SubSeq(file, at + 1, at + chunk_size) \o buffer
             all_lines == Split(text, <<"\n">>)
         IN  IF at > 0
             THEN ReadBlocks(file, n, at, all_lines[1], Tail(all_lines) \o lines,
                             Append(reads, at))
             ELSE ReadBlocks(file, n, at, text, all_lines \o lines, Append(reads, at))

\* non_empty_lines[-n:] if len(non_empty_lines) > n else non_empty_lines
LastOf(list, n) ==
    IF Len(list) > n THEN SubSeq(list, Len(list) - n + 1, Len(list)) ELSE list

\* read_last_n_lines
read_last_n_lines(file, n) ==
    IF Len(file) = 0 THEN [lines |-> <<>>, reads |-> <<>>]
    ELSE LET got == ReadBlocks(file, n, Len(file), <<>>, <<>>, <<>>)
         IN  [lines |-> LastOf(SelectSeq(got.lines, NotBlank), n), reads |-> got.reads]

TailIdle ==
    /\ fpc = "idle" /\ file_bytes = <<>> /\ wanted = 0 /\ tail_lines = <<>>
    /\ tail_reads = <<>>

TailInit ==
    /\ fpc = "opened"
    /\ file_bytes \in Files
    /\ wanted \in 1..MaxWanted
    /\ tail_lines = <<>>
    /\ tail_reads = <<>>

\* process_log_files, line 385: read_last_n_lines(log_file, n, encoding)
ReadTail ==
    /\ fpc = "opened"
    /\ \E r \in {read_last_n_lines(file_bytes, wanted)} :
         /\ tail_lines' = r.lines
         /\ tail_reads' = r.reads
    /\ fpc' = "read"
    /\ UNCHANGED <<file_bytes, wanted>>
    /\ UNCHANGED <<codecVars, mergeVars, logVars, errVars, trigVars, archVars, runVars, storeVars, normVars, cmdVars, cycleVars>>

TailNext == ReadTail

(***************************************************************************)
(* An update cycle over the job folders with the archive step:             *)
(* collect_primary_data reads every folder, task_data_processing moves the *)
(* folders of the disabled tasks and commits, then the records are merged  *)
(* and written.                                                             *)
(***************************************************************************)
Parents == {"reports", "extra"}

Event(e, id, what) == [e |-> e, id |-> id, what |-> what]

\* collect_primary_data, lines 41-61, for one folder: the schedule file, the
\* command file, the task in the scheduler, the log
CollectEventsOf(id) ==
    <<Event("read", id, "schedule"), Event("read", id, "cmd"),
      Event("scheduler", id, "task"), Event("read", id, "log")>>

RECURSIVE CollectEvents(_)
CollectEvents(ids) ==
    IF ids = <<>> THEN <<>> ELSE CollectEventsOf(Head(ids)) \o CollectEvents(Tail(ids))

\* get_task_info as task_data_processing sees it
ReadTask(id, state, parent) ==
    IF state = "unread" THEN EmptyRecord
    ELSE [TaskName |-> id, State |-> IF state = "disabled" THEN 1 ELSE 3,
          Parent |-> parent]

FailedMove == <<"failed">>

\* move_folder_to_archive by its outcome: the new path, or the text returned
\* from the except branch with the folder left where it was
ArchiveMove(parent, id, fails) ==
    IF fails THEN [returned |-> FailedMove, located |-> "source", reports |-> <<"warning">>]
    ELSE [returned |-> <<parent, "Archive", id>>, located |-> "archive", reports |-> <<>>]

\* task_data_processing, lines 158-212, for one task
ProcessTask(task, fails) ==
    IF DOMAIN task = {} THEN [record |-> EmptyRecord, moved |-> <<>>, reports |-> <<>>]
    ELSE LET status == IF task.State = 1 THEN "Disabled" ELSE "Enabled"
         IN  IF task.State = 1 /\ task.Parent # "none"
             THEN LET new_destination == ArchiveMove(task.Parent, task.TaskName, fails)
                  IN  [record |-> [task_name |-> task.TaskName, task_status |-> status,
                                   report_in_archive |-> "True",
                                   report_archive_folder |-> new_destination.returned],
                       moved |-> <<[parent |-> task.Parent, id |-> task.TaskName,
                                    located |-> new_destination.located]>>,
                       reports |-> new_destination.reports]
             ELSE [record |-> [task_name |-> task.TaskName, task_status |-> status],
                   moved |-> <<>>, reports |-> <<>>]

\* the keys of moved_folders_by_parent, in insertion order
RECURSIVE ParentsOf(_, _)
ParentsOf(moved, seen) ==
    IF moved = <<>> THEN <<>>
    ELSE IF Head(moved).parent \in seen THEN ParentsOf(Tail(moved), seen)
    ELSE <<Head(moved).parent>> \o ParentsOf(Tail(moved), seen \cup {Head(moved).parent})

\* commit_changes_to_git: one add and commit for every parent directory
commit_changes_to_git(moved) ==
    LET parents == ParentsOf(moved, {})
    IN  [i \in DOMAIN parents |->
            [parent |-> parents[i],
             folders |-> LET of == SelectSeq(moved, LAMBDA x : x.parent = parents[i])
                         IN  [j \in DOMAIN of |-> of[j].id]]]

RECURSIVE ProcessTasks(_, _)
\* task_data_processing, the loop: the records, the folders moved, the reports
ProcessTasks(task_list, fails) ==
    IF task_list = <<>> THEN [records |-> <<>>, moved |-> <<>>, reports |-> <<>>]
    ELSE LET one == ProcessTask(Head(task_list), fails[1])
             rest == ProcessTasks(Tail(task_list), Tail(fails))
         IN  [records |-> <<one.record>> \o rest.records,
              moved |-> one.moved \o rest.moved,
              reports |-> one.reports \o rest.reports]

\* task_data_processing: what it does, in order, and what it returns
task_data_processing(task_list, fails) ==
    LET done == ProcessTasks(task_list, fails)
        made == commit_changes_to_git(done.moved)
    IN  [records |-> done.records,
         moved |-> done.moved,
         commits |-> made,
         reports |-> done.reports,
         events |-> [i \in DOMAIN done.moved |-> Event("move", done.moved[i].id, "folder")]
                    \o [i \in DOMAIN made |-> Event("commit", made[i].parent, "git")]
                    \o [i \in DOMAIN made |-> Event("push", made[i].parent, "git")]]

\* what the reads of collect_primary_data gave for one folder
MainOf(id) == [task_name |-> id, customer_login |-> "postgre"]
LogOf(id) == [task_name |-> id, last_send_status |-> "Success"]
CmdOf(id) == process_cmd_files(id, "read", RunCmdContent).info

\* variant: the tasks are processed, and the folders moved, before the folders
\* are read
M_UpdateCycle_movefirst(ids, states, parents, fails) ==
    LET processed == task_data_processing(
                         [i \in DOMAIN ids |-> ReadTask(ids[i], states[ids[i]], parents[ids[i]])],
                         [i \in DOMAIN ids |-> fails[ids[i]]])
        merged == merge_with_existing_data(
                        merge_with_existing_data(
                            merge_with_existing_data([i \in DOMAIN ids |-> MainOf(ids[i])],
                                                     processed.records),
                            [i \in DOMAIN ids |-> LogOf(ids[i])]),
                        [i \in DOMAIN ids |-> CmdOf(ids[i])])
    IN  [events |-> processed.events \o CollectEvents(ids)
                    \o <<Event("merge", "all", "records"), Event("write", "all", "update")>>,
         records |-> merged,
         moved |-> processed.moved,
         commits |-> processed.commits,
         reports |-> processed.reports]

\* update_data: collect, process the tasks, merge three times, write
UpdateCycle(ids, states, parents, fails) ==
    LET processed == task_data_processing(
                         [i \in DOMAIN ids |-> ReadTask(ids[i], states[ids[i]], parents[ids[i]])],
                         [i \in DOMAIN ids |-> fails[ids[i]]])
        merged == merge_with_existing_data(
                        merge_with_existing_data(
                            merge_with_existing_data([i \in DOMAIN ids |-> MainOf(ids[i])],
                                                     processed.records),
                            [i \in DOMAIN ids |-> LogOf(ids[i])]),
                        [i \in DOMAIN ids |-> CmdOf(ids[i])])
    IN  [events |-> CollectEvents(ids) \o processed.events
                    \o <<Event("merge", "all", "records"), Event("write", "all", "update")>>,
         records |-> merged,
         moved |-> processed.moved,
         commits |-> processed.commits,
         reports |-> processed.reports]

CycleIdle ==
    /\ ypc = "idle" /\ task_states = <<>> /\ task_parents = <<>> /\ move_fails = <<>>
    /\ located = <<>> /\ events = <<>> /\ commits = <<>> /\ cycle_records = <<>>

CycleInit ==
    /\ ypc = "start"
    /\ task_states \in [IdSet -> {"disabled", "enabled", "unread"}]
    /\ task_parents \in [IdSet -> Parents \cup {"none"}]
    /\ move_fails \in [IdSet -> BOOLEAN]
    /\ located = [id \in IdSet |-> "source"]
    /\ events = <<>>
    /\ commits = <<>>
    /\ cycle_records = <<>>

\* main, lines 12-16: update_data()
RunCycle ==
    /\ ypc = "start"
    /\ \E r \in {UpdateCycle(Ids, task_states, task_parents, move_fails)} :
         /\ events' = r.events
         /\ commits' = r.commits
         /\ cycle_records' = r.records
         /\ located' = [id \in IdSet |->
                           IF \E i \in DOMAIN r.moved :
                                  r.moved[i].id = id /\ r.moved[i].located = "archive"
                           THEN "archive" ELSE located[id]]
         /\ reported' = reported \o r.reports
         /\ ERROR_TYPES' = handle_error(ERROR_TYPES, r.reports)
    /\ ypc' = "done"
    /\ UNCHANGED <<task_states, task_parents, move_fails>>
    /\ UNCHANGED <<codecVars, mergeVars, logVars, trigVars, archVars, runVars, storeVars, normVars, cmdVars, tailVars>>

CycleNext == RunCycle

InitCodec == CodecInit /\ MergeIdle /\ LogIdle /\ TrigIdle /\ ErrInit /\ ArchIdle /\ RunIdle /\ StoreIdle /\ NormIdle /\ CmdIdle /\ TailIdle /\ CycleIdle
InitMerge == MergeInit /\ CodecIdle /\ LogIdle /\ TrigIdle /\ ErrInit /\ ArchIdle /\ RunIdle /\ StoreIdle /\ NormIdle /\ CmdIdle /\ TailIdle /\ CycleIdle
InitLog == LogInit /\ CodecIdle /\ MergeIdle /\ TrigIdle /\ ErrInit /\ ArchIdle /\ RunIdle /\ StoreIdle /\ NormIdle /\ CmdIdle /\ TailIdle /\ CycleIdle
InitTrig == TrigInit /\ CodecIdle /\ MergeIdle /\ LogIdle /\ ErrInit /\ ArchIdle /\ RunIdle /\ StoreIdle /\ NormIdle /\ CmdIdle /\ TailIdle /\ CycleIdle
InitArch == ArchInit /\ CodecIdle /\ MergeIdle /\ LogIdle /\ TrigIdle /\ ErrInit /\ RunIdle /\ StoreIdle /\ NormIdle /\ CmdIdle /\ TailIdle /\ CycleIdle
InitRun == RunInit /\ CodecIdle /\ MergeIdle /\ LogIdle /\ TrigIdle /\ ArchIdle /\ ErrInit /\ StoreIdle /\ NormIdle /\ CmdIdle /\ TailIdle /\ CycleIdle
InitStore == StoreInit /\ CodecIdle /\ MergeIdle /\ LogIdle /\ TrigIdle /\ ArchIdle /\ RunIdle /\ ErrInit /\ NormIdle /\ CmdIdle /\ TailIdle /\ CycleIdle
InitNorm == NormInit /\ CodecIdle /\ MergeIdle /\ LogIdle /\ TrigIdle /\ ArchIdle /\ RunIdle /\ StoreIdle /\ ErrInit /\ CmdIdle /\ TailIdle /\ CycleIdle
InitCmd == CmdInit /\ CodecIdle /\ MergeIdle /\ LogIdle /\ TrigIdle /\ ArchIdle /\ RunIdle /\ StoreIdle /\ NormIdle /\ ErrInit /\ TailIdle /\ CycleIdle
InitTail == TailInit /\ CodecIdle /\ MergeIdle /\ LogIdle /\ TrigIdle /\ ArchIdle /\ RunIdle /\ StoreIdle /\ NormIdle /\ CmdIdle /\ ErrInit /\ CycleIdle
InitCycle == CycleInit /\ CodecIdle /\ MergeIdle /\ LogIdle /\ TrigIdle /\ ArchIdle /\ RunIdle /\ StoreIdle /\ NormIdle /\ CmdIdle /\ TailIdle /\ ErrInit

SpecCodec == InitCodec /\ [][CodecNext]_vars
SpecMerge == InitMerge /\ [][MergeNext]_vars
SpecLog == InitLog /\ [][LogNext]_vars
SpecTrigger == InitTrig /\ [][TrigNext]_vars
SpecArchive == InitArch /\ [][ArchNext]_vars
SpecRun == InitRun /\ [][RunNext]_vars
SpecStore == InitStore /\ [][StoreNext]_vars
SpecNorm == InitNorm /\ [][NormNext]_vars
SpecCmd == InitCmd /\ [][CmdNext]_vars
SpecTail == InitTail /\ [][TailNext]_vars
SpecCycle == InitCycle /\ [][CycleNext]_vars

(***************************************************************************)
(* Claims on the bitmask codec (SpecCodec)                                 *)
(***************************************************************************)
\* the list [PyInt(d) for d in days]
AsPyInts(days) == [i \in DOMAIN days |-> PyInt(days[i])]

RoundTripDone == cpc = "decoded" /\ cSource = "declared"

\* C1 (as stated): for every set S of weekday, month-day or month ordinals, the
\* empty set included, decoding the encoding of S yields exactly the members of S.
C1_RoundTripEverySet ==
    RoundTripDone => cDecoded = AsPyInts(cDays)

\* C1 (amended): decoding the encoding of S yields exactly the members of S for
\* every set of weekday or month ordinals (the empty set included) and for every
\* non-empty set of month-day ordinals; the empty month-day set encodes to False
\* and decodes to the one-element list [False].
C1_RoundTrip ==
    RoundTripDone =>
        IF cMapping = "monthday" /\ cDays = <<>>
        THEN cDecoded = <<PyFalse>>
        ELSE cDecoded = AsPyInts(cDays)

C1_Witness ==
    RoundTripDone /\ cMapping = "monthday" /\ Len(cDays) >= 2 /\ cDecoded # <<>>

\* C2: decoding the bitmask 0 gives [0] for month-days and the empty list for
\* weekdays and months.
C2_DecodeZero ==
    (cpc = "decoded" /\ cBitmask = PyInt(0)) =>
        cDecoded = (IF cMapping = "monthday" THEN <<PyInt(0)>> ELSE <<>>)

C2_Witness ==
    /\ cpc = "decoded" /\ cSource = "readback"
    /\ cBitmask = PyInt(0) /\ cMapping = "monthday" /\ Len(cDecoded) = 1

\* C3: encoding the empty list returns one and the same sentinel, the same value
\* of the same kind, whichever of the three encoders is used.
C3_EmptySentinelIsOne ==
    (cpc = "encoded" /\ cDays = <<>>) =>
        \A m \in Mappings : cBitmask = Encode(m, <<>>)

(***************************************************************************)
(* Claims on the record merger (SpecMerge)                                 *)
(***************************************************************************)
HasName(r) == "task_name" \in DOMAIN r

\* positions of the records of list that carry the identifier of record r
SameIdentifier(list, r) ==
    {j \in DOMAIN list : HasName(r) /\ HasName(list[j])
                          /\ list[j]["task_name"] = r["task_name"]}

\* C4: merge(merge(A, B), B) = merge(A, B): applying the same patch a second
\* time changes no record, no order and no field value.
C4_MergeIdempotent ==
    mpc = "remerged" => existing = prev

C4_Witness ==
    /\ mpc = "remerged" /\ mcount = 1
    /\ Len(existing) = 2 /\ existing[1] # existing[2]
    /\ existing[1] # original[1] /\ existing[2] # original[2]

\* C5: after sources L1, L2, L3 (and further ones) were chained in that order, a
\* non-key field that the latest source supplies for an identifier (in the record
\* the merge looks up for it, its first record with that identifier) holds the
\* latest source's value, whatever L1 and the sources in between held.
C5_LaterSourceWins ==
    (mpc = "merged" /\ mcount >= 2) =>
        \A i \in DOMAIN existing :
            LET J == SameIdentifier(incoming, existing[i])
            IN  J # {} =>
                  \A k \in DOMAIN incoming[Min(J)] \ {"task_name"} :
                      /\ k \in DOMAIN existing[i]
                      /\ existing[i][k] = incoming[Min(J)][k]

\* L1 and L3 both hold the field for the identifier, with different values, and L2
\* changed it in between
C5_Witness ==
    /\ mpc = "merged" /\ mcount = 2
    /\ \E i \in DOMAIN existing :
          LET J == SameIdentifier(incoming, existing[i])
          IN  /\ J # {}
              /\ "theme" \in DOMAIN original[i]
              /\ "theme" \in DOMAIN incoming[Min(J)]
              /\ "theme" \in DOMAIN prev[i]
              /\ prev[i]["theme"] # original[i]["theme"]
              /\ incoming[Min(J)]["theme"] # prev[i]["theme"]
              /\ existing[i]["theme"] = incoming[Min(J)]["theme"]

\* C6: a merge keeps the number and order of the existing records and their
\* task_name; a record with no incoming record of its identifier is unchanged;
\* a field absent from the first incoming record of its identifier keeps its
\* previous value (or stays absent).
C6_MergeFrame ==
    mpc = "merged" =>
        /\ Len(existing) = Len(prev)
        /\ \A i \in DOMAIN prev :
              LET J == SameIdentifier(incoming, prev[i])
              IN  /\ HasName(existing[i]) = HasName(prev[i])
                  /\ GetName(existing[i]) = GetName(prev[i])
                  /\ J = {} => existing[i] = prev[i]
                  /\ J # {} =>
                        \A k \in NonKeyFields \ DOMAIN incoming[Min(J)] :
                            /\ (k \in DOMAIN existing[i]) = (k \in DOMAIN prev[i])
                            /\ k \in DOMAIN prev[i] => existing[i][k] = prev[i][k]

\* the first incoming record of the identifier lacks the field, a later one
\* holds it with another value, a second existing record has no match
C6_Witness ==
    /\ mpc = "merged" /\ Len(existing) = 2 /\ Len(incoming) = 2
    /\ SameIdentifier(incoming, prev[1]) = {1, 2}
    /\ SameIdentifier(incoming, prev[2]) = {}
    /\ "theme" \in DOMAIN prev[1] /\ "theme" \in DOMAIN prev[2]
    /\ "theme" \notin DOMAIN incoming[1]
    /\ "theme" \in DOMAIN incoming[2]
    /\ incoming[2]["theme"] # prev[1]["theme"]
    /\ existing = prev

(***************************************************************************)
(* Claims on the log extractor (SpecLog)                                   *)
(***************************************************************************)
Max(S) == CHOOSE x \in S : \A y \in S : x >= y

Events == {i \in DOMAIN last_lines : last_lines[i].event}
TodayEvents == {i \in Events : last_lines[i].date = today}

\* log_info reports the event of line i: its date and its recipients
ReportsLine(i) ==
    /\ last_match = i
    /\ "last_send_date" \in DOMAIN log_info
    /\ log_info["last_send_date"] = last_lines[i].date
    /\ log_info["last_send_recipients"] = Join(last_lines[i].to, <<",">>)

\* C7: if the lines read hold an event dated today, the newest event dated today
\* is reported; if they hold events of earlier dates only, the newest event is.
C7_DatePreference ==
    (lpc = "processed" /\ logLocation # "missing") =>
        IF TodayEvents # {} THEN ReportsLine(Max(TodayEvents))
        ELSE Events # {} => ReportsLine(Max(Events))

\* two events dated today followed by a line of an earlier date
C7_Witness ==
    /\ lpc = "processed" /\ Len(last_lines) = 3
    /\ TodayEvents = {1, 2} /\ Events = {1, 2, 3}
    /\ last_lines[1] # last_lines[2]
    /\ last_match = 2

\* C8: a selected Success event is reported as SendError when the sentinel
\* address is one of its recipients, and as Success when it is not.
C8_PlaceholderDowngrade ==
    (lpc = "processed" /\ last_match # 0
     /\ last_lines[last_match].status = "Success") =>
        log_info["last_send_status"] =
            (IF Sentinel \in Range(last_lines[last_match].to)
             THEN "SendError" ELSE "Success")

\* C9: when the log file is at neither place, process_log_files returns the
\* empty dict and reports one warning and nothing else, and the merge of the log
\* data leaves the record of that job as it was.
C9_MissingLogRecoverable ==
    [][logLocation = "missing" =>
          /\ (lpc = "start" /\ lpc' = "processed") =>
                /\ log_info' = EmptyRecord
                /\ reported' = <<"warning">>
                /\ ERROR_TYPES' = {}
          /\ (lpc = "processed" /\ lpc' = "merged") =>
                /\ all_data'[1] = all_data[1]
                /\ Len(all_data') = Len(all_data)]_vars

C9_Witness ==
    /\ lpc = "merged" /\ logLocation = "missing"
    /\ "last_send_status" \in DOMAIN all_data[1]
    /\ "last_send_status" \in DOMAIN all_data[2]
    /\ reported = <<"warning">>

(***************************************************************************)
(* Claims on the trigger validator (SpecTrigger)                           *)
(***************************************************************************)
MonthDayErrors(n) ==
    {i \in DOMAIN errors : errors[i].trigger = n /\ errors[i].field = "days_of_month"}

\* C10: a monthly trigger whose month-day list is empty and whose run-on-last-day
\* flag is not set makes check_required_params return False and report an error
\* that names the month-day field; with the flag set (the list was ["Last"]) the
\* empty list gives no month-day error.
C10_EmptyMonthDays ==
    tpc = "checked" =>
        \A n \in DOMAIN params.triggers :
            LET t == params.triggers[n]
            IN  (t.trigger_type = "monthly" /\ t.days_of_month = <<>>) =>
                    IF ~t.run_on_last_day_of_month
                    THEN /\ ~accepted
                         /\ MonthDayErrors(n) # {}
                         /\ reported = <<"error">>
                         /\ "error" \in ERROR_TYPES
                    ELSE MonthDayErrors(n) = {}

\* a file with two monthly entries: one with an empty list, one with ["Last"]
C10_Witness ==
    /\ tpc = "checked" /\ content.format = "multi" /\ Len(content.triggers) = 2
    /\ content.triggers[1].trigger_type = <<"monthly">>
    /\ content.triggers[1].days_of_month = << <<>> >>
    /\ content.triggers[2].trigger_type = <<"monthly">>
    /\ content.triggers[2].days_of_month = << <<"Last">> >>
    /\ params.triggers[2].days_of_month = <<>>
    /\ params.triggers[2].run_on_last_day_of_month
    /\ MonthDayErrors(1) # {} /\ MonthDayErrors(2) = {}
    /\ ~accepted

(***************************************************************************)
(* Claims on the trigger builder (SpecTrigger)                             *)
(***************************************************************************)
\* the schedule file has been dealt with: the job was built, or the parser or
\* the validator turned it down
TaskDone ==
    \/ tpc = "created"
    \/ tpc = "checked" /\ ~accepted
    \/ tpc = "parsed" /\ ~params.ok

\* the declared entry lacks its type, start date or start time, or its type is
\* not one of the four kinds
Flawed(raw) ==
    \/ raw.trigger_type = <<>> \/ raw.start_date = <<>> \/ raw.start_time = <<>>
    \/ raw.trigger_type[1] \notin TriggerConfig

FlawedEntries == {i \in DOMAIN content.triggers : Flawed(content.triggers[i])}

\* C11: a declared trigger without type, start date or start time, or with an
\* unknown type, is reported through handle_error, raises nothing to the caller
\* and gets no native trigger.
C11_FlawedTriggerRejected ==
    (TaskDone /\ FlawedEntries # {}) =>
        /\ reported # <<>>
        /\ created \in {"none", "True", "False"}
        /\ Len(Triggers) <= Len(content.triggers) - Cardinality(FlawedEntries)

\* the entries of the parsed list that the validator finds no error in
SurvivingEntries ==
    {i \in DOMAIN params.triggers : _validate_single_trigger(params.triggers[i], i) = <<>>}

\* C12: a multi-trigger file is registered with one native trigger for each
\* entry that passes validation, and is not registered only when no entry does.
C12_SurvivorsRegistered ==
    (TaskDone /\ content.format = "multi") =>
        IF SurvivingEntries # {}
        THEN registered /\ Len(Triggers) = Cardinality(SurvivingEntries)
        ELSE ~registered

\* a legacy file whose trigger has a valid date and time and valid lists
WellFormed(raw) ==
    /\ raw.trigger_type # <<>> /\ raw.trigger_type[1] \in TriggerConfig
    /\ raw.start_date = <<"2025-01-15">> /\ raw.start_time = <<"09:30">>
    /\ raw.days_of_week \in {<<>>, << <<"Monday">> >>}
    /\ raw.days_of_month \in {<<>>, << <<"1">> >>, << <<"Last">> >>, << <<"1", "Last">> >>}
    /\ raw.months_of_year \in {<<>>, << <<"January">> >>, << <<"AllMonths">> >>}

\* C13: a well-formed trigger of any of the four kinds passes validation and
\* gives one native trigger of its kind, with the start boundary of the entry
\* and the entry's enabled flag (true when the entry has none).
C13_FourKindsBuilt ==
    (content.format = "legacy" /\ Len(content.triggers) = 1
        /\ WellFormed(content.triggers[1])) =>
        LET raw == content.triggers[1]
        IN  /\ tpc \in {"checked", "created"} => accepted
            /\ tpc = "created" =>
                /\ created = "True" /\ registered /\ Len(Triggers) = 1
                /\ Triggers[1].Type = raw.trigger_type[1]
                /\ Triggers[1].StartBoundary = << <<"2025-01-15", "T", "06:30:00", "Z">> >>
                /\ Triggers[1].Enabled = (IF raw.enabled = <<>> THEN <<TRUE>> ELSE raw.enabled)

(***************************************************************************)
(* Claims on the archive mover (SpecArchive)                               *)
(***************************************************************************)
\* the paths of the files of a folder
Paths(folder) ==
    {<<n>> : n \in DOMAIN folder.files}
    \cup (IF folder.sub = <<>> THEN {} ELSE {<<0, n>> : n \in DOMAIN folder.sub[1]})

VersionAt(folder, path) ==
    IF Len(path) = 1 THEN folder.files[path[1]] ELSE folder.sub[1][path[2]]

\* C14: after a move into an archive folder that already exists, the archive
\* folder holds every file that the old archive folder or the job folder held,
\* a file of the job folder in the job folder's version, and the job folder is
\* gone.
C14_ArchiveUnion ==
    (apc = "moved" /\ destination # <<>>) =>
        /\ sourceAfter = <<>>
        /\ destinationAfter # <<>>
        /\ Paths(destinationAfter[1]) = Paths(destination[1]) \cup Paths(source[1])
        /\ \A path \in Paths(source[1]) :
               VersionAt(destinationAfter[1], path) = "incoming"

(***************************************************************************)
(* Claims on a run of main (SpecRun)                                       *)
(***************************************************************************)
WorkDone == rpc \in {"worked", "closed", "returned"}

InsertCycle == tasks # {} /\ "daily_update" \notin tasks

\* the records of the insert batches that carry the identifier
InsertedFor(id) ==
    {<<w, i>> \in {<<w, i>> \in (DOMAIN writes) \X (1..Cardinality(IdSet) * 2) :
                       writes[w].op = "insert" /\ i \in DOMAIN writes[w].records} :
        GetName(writes[w].records[i]) = id}

\* C15: in an insert cycle, for a folder made today whose identifier has no row
\* in the store, whose main data is in a backing store, with a valid weekly
\* schedule file and a command file naming a@x.com and "Daily Report", exactly
\* one record is inserted for the identifier, with the weekly schedule type,
\* the recipient and the theme.
C15_EndToEndInsert ==
    \A id \in IdSet :
        (WorkDone /\ InsertCycle /\ disk[id] = "today" /\ id \notin store
            /\ primary[id] # "none" /\ schedules[id] = "weekly") =>
            /\ Cardinality(InsertedFor(id)) = 1
            /\ \A at \in InsertedFor(id) :
                   LET record == writes[at[1]].records[at[2]]
                   IN  /\ {"task_schedule_type", "emails", "theme"} \subseteq DOMAIN record
                       /\ record.task_schedule_type = "weekly"
                       /\ record.emails = "a@x.com"
                       /\ record.theme = "Daily Report"

\* C16: when main returns, no connection that was opened during the run is
\* still open, whether the cycle ended normally or raised.
C16_ConnectionsClosed ==
    rpc \in {"closed", "returned"} => connections = {}

\* an update cycle that raised after the walker's connector and the shared
\* connector had opened connections
C16_Witness ==
    /\ rpc = "returned" /\ "daily_update" \in tasks
    /\ {<<"walker", "mssql">>, <<"shared", "oracle">>, <<"shared", "postgre">>} \subseteq opened
    /\ "critical" \in Range(reported)
    /\ connections = {}

\* the folders the cycle of this run has to collect
Targets ==
    IF "daily_update" \in tasks
    THEN SelectSeq(Ids, LAMBDA id : disk[id] # "none" /\ id \in store)
    ELSE IF tasks # {}
    THEN SelectSeq(Ids, LAMBDA id : disk[id] = "today" /\ id \notin store)
    ELSE <<>>

WrittenFor(id) ==
    \E w \in DOMAIN writes : \E i \in DOMAIN writes[w].records :
        GetName(writes[w].records[i]) = id

\* C17: whatever fails for one folder, every folder of the batch is collected
\* and the batch written to the store holds the identifiers whose own schedule
\* is sound.
C17_FailureStaysLocal ==
    WorkDone =>
        /\ collected = Targets
        /\ \A id \in Range(Targets) :
               (primary[id] # "none" /\ schedules[id] = "weekly") => WrittenFor(id)

ErrorReported == \E i \in DOMAIN reported : reported[i] \in {"error", "critical"}

\* C18 as stated: send_error_report is called once, after the work and the
\* teardown, and attempts to send exactly when an error or critical event was
\* reported.
C18_SendIffErrors ==
    /\ Len(sends) = (IF rpc = "returned" THEN 1 ELSE 0)
    /\ \A i \in DOMAIN sends :
           /\ sends[i].after = "closed"
           /\ sends[i].outcome = "attempted" <=> ErrorReported

\* C18: send_error_report is called once, after the work and the teardown, and
\* attempts to send exactly when an error or critical event was reported and
\* the mailer settings hold the SMTP server and the sender.
C18_ReportOnce ==
    /\ Len(sends) = (IF rpc = "returned" THEN 1 ELSE 0)
    /\ \A i \in DOMAIN sends :
           /\ sends[i].after = "closed"
           /\ sends[i].outcome = "attempted" <=> (ErrorReported /\ mailer)
           /\ sends[i].outcome = "nothing" <=> ~ErrorReported

\* a run whose cycle raised, with a configured mailer
C18_Witness ==
    /\ rpc = "returned" /\ mailer /\ "critical" \in Range(reported)
    /\ Len(sends) = 1 /\ sends[1].outcome = "attempted"

\* C20: an insert cycle neither collects nor inserts an identifier that has a
\* row in the store, and an update cycle collects only identifiers that have one.
C20_InsertPreFilter ==
    WorkDone =>
        /\ InsertCycle =>
               \A id \in store : id \notin Range(collected) /\ InsertedFor(id) = {}
        /\ "daily_update" \in tasks => Range(collected) \subseteq store

\* an insert cycle over two folders made today: REQ1 has a row and is left out,
\* REQ2 has none and is inserted
C20_Witness ==
    /\ WorkDone /\ InsertCycle
    /\ disk = [id \in IdSet |-> "today"]
    /\ store = {"REQ1"}
    /\ collected = <<"REQ2">>
    /\ InsertedFor("REQ2") # {} /\ InsertedFor("REQ1") = {}

StoreDone == qpc = "returned"

\* C19: when the store rejects one record of a batch, the failure is reported
\* and every other record of the batch is still written and stays written.
C19_SiblingsWritten ==
    StoreDone =>
        /\ failing \cap DOMAIN params_list # {} => "critical" \in Range(reported)
        /\ \A i \in DOMAIN params_list : i \notin failing => i \in table

\* the positions of the triggers whose value for the field is truthy
KeptTriggers(field) ==
    SelectSeq([i \in DOMAIN schedule_info |-> i],
              LAMBDA i : TruthyV(schedule_info[i][KeyOf(field)]))

\* a truthy value as the record shows it
Shown(field, value) ==
    IF KeyOf(field) = "StartBoundary" THEN Str(format_datetime(value))
    ELSE IF value.t = "list" THEN Join([i \in DOMAIN value.s |-> <<value.s[i]>>], <<", ">>)
    ELSE Str(value)

\* C21: process_trigger_info returns every canonical schedule field; a field
\* joins with ", " the truthy values of the triggers, each prefixed
\* "Trigger n: " exactly when there is more than one trigger, and is null when
\* no trigger has a truthy value for it.
C21_TriggerNormalised ==
    npc = "processed" =>
        /\ DOMAIN schedule_result = ScheduleFields
        /\ \A field \in ScheduleFields :
               LET kept == KeptTriggers(field)
                   texts == [j \in DOMAIN kept |->
                                Prefix(schedule_info, kept[j])
                                    \o Shown(field, schedule_info[kept[j]][KeyOf(field)])]
               IN  schedule_result[field] =
                       IF kept = <<>> THEN <<>> ELSE <<Join(texts, <<", ">>)>>

\* the mail dispatch directives of the command file, in file order
MailDirectives ==
    LET RECURSIVE Flat(_)
        Flat(i) == IF i > Len(cmd_content) THEN <<>>
                   ELSE SelectSeq(cmd_content[i], LAMBDA x : x.d = "mail") \o Flat(i + 1)
    IN  Flat(1)

CmdDone == kpc = "processed" /\ cmd_file = "read"

\* C22 as stated: sender type, recipients and subject come from the mail
\* dispatch directive closest to the end of the file, and none of the three is
\* set when the file holds none.
C22_LastDirective ==
    CmdDone =>
        IF MailDirectives = <<>>
        THEN DOMAIN task_info \cap {"sender_type", "emails", "theme"} = {}
        ELSE LET last == MailDirectives[Len(MailDirectives)]
             IN  /\ {"sender_type", "emails"} \subseteq DOMAIN task_info
                 /\ task_info.emails = last.emails

\* the lines that hold a mail dispatch directive
MailLines == {i \in DOMAIN cmd_content : Search(cmd_content[i], "mail") # <<>>}

\* C22: sender type and recipients come from the last line that holds a mail
\* dispatch directive, from the leftmost directive of that line, and so does
\* the subject unless a report name replaces it; with no such line sender type
\* and recipients are not set and the subject is set by a report name only.
C22_LastMailLine ==
    CmdDone =>
        IF MailLines = {}
        THEN /\ DOMAIN task_info \cap {"sender_type", "emails"} = {}
             /\ "theme" \in DOMAIN task_info <=> ThemeMatch(cmd_content, 1) # <<>>
        ELSE LET taken == cmd_content[Max(MailLines)][1]
             IN  /\ {"sender_type", "emails", "theme"} \subseteq DOMAIN task_info
                 /\ task_info.sender_type = "mailer_name.exe"
                 /\ task_info.emails = taken.emails
                 /\ ThemeMatch(cmd_content, 1) = <<>> => task_info.theme = taken.theme

\* two mail dispatch lines with different recipients, the later one taken
C22_Witness ==
    /\ CmdDone
    /\ Cardinality(MailLines) >= 2
    /\ cmd_content[Min(MailLines)][1].emails # cmd_content[Max(MailLines)][1].emails
    /\ task_info.emails = cmd_content[Max(MailLines)][1].emails

\* the report name directives of the command file, in file order
NameDirectives ==
    LET RECURSIVE Flat(_)
        Flat(i) == IF i > Len(cmd_content) THEN <<>>
                   ELSE SelectSeq(cmd_content[i], LAMBDA x : x.d = "name") \o Flat(i + 1)
    IN  Flat(1)

\* C23: with a report name directive the theme is its value, whether or not a
\* mail dispatch gave a subject, and sender type and recipients are what the
\* mail dispatch gave; any directive may be absent, and without a command file
\* the record holds the identifier alone and nothing is reported.
C23_ReportNameOverride ==
    kpc = "processed" =>
        /\ task_info.task_name = "REQ1"
        /\ cmd_file = "read" =>
               /\ NameDirectives # <<>> =>
                      /\ "theme" \in DOMAIN task_info
                      /\ task_info.theme = NameDirectives[1].theme
               /\ \A k \in {"sender_type", "emails"} :
                      /\ k \in DOMAIN task_info <=> MailLines # {}
                      /\ MailLines # {} =>
                             task_info[k] = process_cmd_files("REQ1", "read",
                                 SelectSeq(cmd_content, LAMBDA line : Search(line, "name") = <<>>)).info[k]
               /\ reported = <<>>
        /\ (cmd_file = "none" \/ (cmd_file = "read" /\ MailLines = {} /\ NameDirectives = <<>>)) =>
               DOMAIN task_info = {"task_name"} /\ reported = <<>>

\* a mail dispatch with its own subject and a report name after it
C23_Witness ==
    /\ CmdDone
    /\ MailLines # {} /\ NameDirectives # <<>>
    /\ task_info.theme = NameDirectives[1].theme
    /\ task_info.theme # cmd_content[Max(MailLines)][1].theme
    /\ task_info.emails = cmd_content[Max(MailLines)][1].emails

\* the non-empty lines of the file, in file order
NonEmptyLines == SelectSeq(Split(file_bytes, <<"\n">>), NotBlank)

\* C28: read_last_n_lines reads its blocks from the end toward the start and
\* returns the last n non-empty lines of the file in file order, all of them
\* when the file has fewer than n.
C28_TailLines ==
    fpc = "read" =>
        /\ \A i, j \in DOMAIN tail_reads : i < j => tail_reads[j] < tail_reads[i]
        /\ tail_lines = LastOf(NonEmptyLines, wanted)

CycleDone == ypc = "done"

\* the record written for an identifier
RecordOf(id) == cycle_records[CHOOSE i \in DOMAIN cycle_records :
                                  GetName(cycle_records[i]) = id]

\* the task of the identifier is disabled and its action names a folder
ToArchive(id) == task_states[id] = "disabled" /\ task_parents[id] # "none"

\* C24: the folder of every disabled task with an action path is moved and
\* its record holds report_in_archive and the new path under Archive; a record
\* is marked archived only when the folder is at the recorded path; other tasks
\* get neither field.
C24_ArchiveRecorded ==
    CycleDone =>
        \A id \in IdSet :
            /\ ToArchive(id) <=> Event("move", id, "folder") \in Range(events)
            /\ ToArchive(id) <=> "report_in_archive" \in DOMAIN RecordOf(id)
            /\ "report_archive_folder" \in DOMAIN RecordOf(id) <=> ToArchive(id)
            /\ "report_in_archive" \in DOMAIN RecordOf(id) =>
                   /\ RecordOf(id).report_in_archive = "True"
                   /\ RecordOf(id).report_archive_folder = <<task_parents[id], "Archive", id>>
                   /\ located[id] = "archive"

EventsAt(e) == {i \in DOMAIN events : events[i].e = e}

\* the folders a move was made for, by parent directory
MovedFrom(parent) ==
    SelectSeq(Ids, LAMBDA id : ToArchive(id) /\ task_parents[id] = parent)

\* C25: the folders moved are reported with one commit per parent directory
\* that lists every folder moved from it, and the commits are made only after
\* the merge and the store write.
C25_AuditAfterRun ==
    CycleDone =>
        /\ \A parent \in Parents :
               LET of == {i \in DOMAIN commits : commits[i].parent = parent}
               IN  IF MovedFrom(parent) = <<>> THEN of = {}
                   ELSE /\ Cardinality(of) = 1
                        /\ \A i \in of : commits[i].folders = MovedFrom(parent)
        /\ \A c \in EventsAt("commit") \cup EventsAt("push") :
               \A w \in EventsAt("merge") \cup EventsAt("write") : w < c

\* C27: every read of a job folder comes before the move of that folder, and
\* the record written for a moved folder holds what was read together with the
\* archive fields.
C27_ReadsBeforeMove ==
    CycleDone =>
        \A id \in IdSet :
            /\ \A r \in EventsAt("read") : \A m \in EventsAt("move") :
                   (events[r].id = id /\ events[m].id = id) => r < m
            /\ {Event("read", id, what) : what \in {"schedule", "cmd", "log"}}
                   \subseteq Range(events)
            /\ ToArchive(id) =>
                   /\ {"last_send_status", "emails", "theme", "report_in_archive",
                       "report_archive_folder"} \subseteq DOMAIN RecordOf(id)
                   /\ RecordOf(id).last_send_status = LogOf(id).last_send_status
                   /\ RecordOf(id).emails = CmdOf(id).emails
                   /\ RecordOf(id).report_archive_folder =
                          ArchiveMove(task_parents[id], id, move_fails[id]).returned

\* both folders are moved, after both were read
C27_Witness ==
    /\ CycleDone
    /\ \A id \in IdSet : ToArchive(id) /\ located[id] = "archive"
    /\ Cardinality(EventsAt("move")) = 2 /\ Cardinality(EventsAt("read")) = 6
    /\ \A id \in IdSet : RecordOf(id).report_in_archive = "True"

\* C26: an update leaves a stored column as it was when the run produced no
\* value for its field.
C26_OnlyChangedFields ==
    (StoreDone /\ query = "update") =>
        \A c \in Columns :
            FieldOf(c) \notin DOMAIN update_fields => row_after[c] = row_before[c]

\* C29: a batch handed to the store holds at most one record for an identifier.
C29_OneRecordPerJob ==
    \A w \in DOMAIN writes : \A id \in IdSet :
        Cardinality({i \in DOMAIN writes[w].records :
                         GetName(writes[w].records[i]) = id}) <= 1

\* the identifiers named on the command line
NamedIds == tasks \cap IdSet

\* C30: without daily_update the insert cycle collects and inserts the folders
\* of the identifiers named on the command line that are not in the store, and
\* no others; with daily_update only the update cycle runs; the two cycles
\* never both run.
C30_Dispatch ==
    WorkDone =>
        /\ InsertCycle =>
               /\ Range(collected) \subseteq NamedIds
               /\ \A id \in NamedIds :
                      (disk[id] # "none" /\ id \notin store) => id \in Range(collected)
               /\ \A w \in DOMAIN writes : writes[w].op = "insert"
        /\ "daily_update" \in tasks => \A w \in DOMAIN writes : writes[w].op = "update"
        /\ Len(writes) <= 1

====
